---- MODULE Spec2Model ----
(***************************************************************************)
(* Identity / session core of unsugar-io-api: the User model               *)
(* (src/src/models/User.js), the JWT helpers (src/src/utils/jwt.js), the   *)
(* authenticate middleware (src/src/middleware/auth.js), the passport      *)
(* strategies (src/src/config/passport.js) and the auth routes             *)
(* (src/src/routes/auth.js).                                               *)
(*                                                                         *)
(* Time is the wall clock in milliseconds (Date.now()).  JWT timestamps    *)
(* (iat, exp) are whole seconds, as jsonwebtoken writes them.              *)
(***************************************************************************)
EXTENDS Integers, Sequences, FiniteSets, Bags, TLC

VARIABLES
    users,      \* the users collection: users[i] is the document with _id = i
    now,        \* Date.now(), milliseconds
    ticks,      \* how many times the clock has advanced (bounds the run)
    cfg,        \* process configuration read at start-up: the signing secrets
    issued,     \* history: every token handed to a client so far
    revoked,    \* history: refresh tokens a user logged out with
    pwChanged,  \* history: pwChanged[i] = time of user i's last password change
    streak,     \* history: consecutive failed password logins of one account
    resp,       \* the last request and its response
    inflight,   \* requests that have loaded their user document and not yet saved it
    hits        \* requests the API rate limiter has counted in the current window

vars == <<users, now, ticks, cfg, issued, revoked, pwChanged, streak, resp, inflight, hits>>

-----------------------------------------------------------------------------
(* Program constants *)

ACCESS_TOKEN_EXPIRY == 900
REFRESH_TOKEN_EXPIRY == 604800
MaxRefreshTokens == 5
MsPerSecond == 1000

\* apiLimiter: max requests per window and the window in milliseconds
ApiLimiterMax == 100
ApiLimiterWindowMs == 900000
\* authLimiter, which routes/auth.js defines and mounts on no route
AuthLimiterMax == 5

(* Bounds of the model *)

MaxTicks == 1
MaxStreak == 6
SubSecondStep == 500
MaxSalt == 3

Emails == {"a@x"}
SubjectIds == {"sub1"}
Passwords == {"pw1", "pw2"}
\* Passwords shorter than the 8 characters /register asks for
WeakPasswords == {"short"}
TickSteps ==
    {SubSecondStep, ACCESS_TOKEN_EXPIRY * MsPerSecond, REFRESH_TOKEN_EXPIRY * MsPerSecond}

\* The lockout threshold of the specification (section 4.3); the routes and
\* the User model hold no such constant.
LockThreshold == 5

\* The lock duration of the specification (section 4.3, "e.g. 1 hour"), in
\* milliseconds; the routes and the User model hold no such constant.
LockDuration == 3600000

NoDate == -1
NoUser == 0
NoPassword == <<"none", "">>

-----------------------------------------------------------------------------
(* src/src/utils/jwt.js *)

NoToken ==
    [type |-> "none", userId |-> NoUser, role |-> "none", iat |-> 0, exp |-> 0, key |-> "none"]

nowSec(t) == t \div MsPerSecond

\* jwt.sign(payload, secret, {expiresIn}): iat = floor(Date.now()/1000),
\* exp = iat + expiresIn; the token string is a function of payload and secret.
generateAccessToken(userId, role, secret, t) ==
    [type |-> "access", userId |-> userId, role |-> role,
     iat |-> nowSec(t), exp |-> nowSec(t) + ACCESS_TOKEN_EXPIRY, key |-> secret]

generateRefreshToken(userId, secret, t) ==
    [type |-> "refresh", userId |-> userId, role |-> "none",
     iat |-> nowSec(t), exp |-> nowSec(t) + REFRESH_TOKEN_EXPIRY, key |-> secret]

\* jwt.verify(token, secret): the signature must verify under secret and the
\* token must not be expired (clockTimestamp >= exp is expired).
jwtVerify(token, secret, t) ==
    /\ token.key = secret
    /\ nowSec(t) < token.exp

\* verifyAccessToken without the check of the type claim
verifyAccessToken_NoType(token, secret, t) ==
    jwtVerify(token, secret, t)

\* TRUE when verifyAccessToken returns the decoded payload, FALSE when it throws.
verifyAccessToken(token, secret, t) ==
    /\ jwtVerify(token, secret, t)
    /\ token.type = "access"

\* verifyRefreshToken without the check of the type claim
verifyRefreshToken_NoType(token, secret, t) ==
    jwtVerify(token, secret, t)

\* TRUE when verifyRefreshToken returns the decoded payload, FALSE when it throws.
verifyRefreshToken(token, secret, t) ==
    /\ jwtVerify(token, secret, t)
    /\ token.type = "refresh"

\* A token whose payload was altered without the secret: the type claim is
\* flipped and the signature verifies under no key.
Tamper(token) ==
    [token EXCEPT !.type = IF token.type = "access" THEN "refresh" ELSE "access",
                  !.key = "none"]

-----------------------------------------------------------------------------
(* src/src/models/User.js *)

\* Two passwords of 73 bytes that share their first 72 bytes
LongPasswords == {"<72 bytes>a", "<72 bytes>b"}

\* bcryptjs keys the cipher with the first 72 bytes of the password and ignores
\* the rest.
bcryptKey(password) ==
    IF password \in LongPasswords THEN "<72 bytes>" ELSE password

\* The salt a stored password value was hashed with (0 when it is no hash)
saltOf(password) == IF password[1] = "bcrypt" THEN password[3] ELSE 0

\* bcrypt.genSalt(12): 16 random bytes, modelled as a salt that no stored hash
\* carries.
genSalt ==
    LET used == {saltOf(users[i].password) : i \in 1..Len(users)} \cup {0}
    IN  1 + CHOOSE m \in used : \A x \in used : x <= m

\* bcrypt.hash(password, salt)
bcryptHash(plain, salt) == <<"bcrypt", bcryptKey(plain[2]), salt>>

\* bcrypt.compare(candidate, hash): the candidate hashed with the salt of hash
bcryptCompare(candidate, hash) ==
    hash = bcryptHash(<<"plain", candidate>>, saltOf(hash))

\* new User({...}) with the schema defaults
NewUser(email, password, googleId, githubId, providers, verified) ==
    [email |-> email,
     name |-> "name",
     password |-> password,
     googleId |-> googleId,
     githubId |-> githubId,
     oauthProviders |-> providers,
     role |-> "user",
     isVerified |-> verified,
     isActive |-> TRUE,
     refreshTokens |-> << >>,
     lastLogin |-> NoDate,
     passwordChangedAt |-> NoDate]

\* The pre('save') hook hashing whatever the password path holds, modified or not
preSave_AlwaysHashes(user, passwordModified) ==
    IF user.password = NoPassword
    THEN user
    ELSE [user EXCEPT !.password = bcryptHash(user.password, genSalt)]

\* userSchema.pre('save'): hash the password when it was modified and exists
preSave(user, passwordModified) ==
    IF ~passwordModified \/ user.password = NoPassword
    THEN user
    ELSE [user EXCEPT !.password = bcryptHash(user.password, genSalt)]

\* comparePassword accepting every candidate
comparePassword_Any(user, candidatePassword) ==
    user.password = user.password

comparePassword(user, candidatePassword) ==
    IF user.password = NoPassword THEN FALSE
    ELSE bcryptCompare(candidatePassword, user.password)

changedPasswordAfter(user, JWTTimestamp) ==
    IF user.passwordChangedAt # NoDate
    THEN JWTTimestamp < (user.passwordChangedAt \div MsPerSecond)
    ELSE FALSE

\* slice(0, n) in place of slice(-n): keeps the oldest entries
SliceLast_First(s, n) ==
    IF Len(s) > n THEN SubSeq(s, 1, n) ELSE s

\* slice(-n) of a sequence
SliceLast(s, n) ==
    IF Len(s) > n THEN SubSeq(s, Len(s) - n + 1, Len(s)) ELSE s

\* addRefreshToken without the cap
addRefreshToken_NoCap(user, token, expiresIn, t) ==
    [user EXCEPT !.refreshTokens =
        Append(user.refreshTokens,
               [token |-> token, expiresAt |-> t + expiresIn * MsPerSecond])]

addRefreshToken(user, token, expiresIn, t) ==
    LET pushed == Append(user.refreshTokens,
                         [token |-> token, expiresAt |-> t + expiresIn * MsPerSecond])
    IN  [user EXCEPT !.refreshTokens =
            IF Len(pushed) > MaxRefreshTokens
            THEN SliceLast(pushed, MaxRefreshTokens)
            ELSE pushed]

\* removeRefreshToken emptying the list
removeRefreshToken_All(user, token) ==
    [user EXCEPT !.refreshTokens = SelectSeq(user.refreshTokens, LAMBDA rt : rt.token # rt.token)]

\* removeRefreshToken removing nothing
removeRefreshToken_Nothing(user, token) ==
    [user EXCEPT !.refreshTokens = SelectSeq(user.refreshTokens, LAMBDA rt : rt.token = rt.token)]

removeRefreshToken(user, token) ==
    [user EXCEPT !.refreshTokens = SelectSeq(user.refreshTokens, LAMBDA rt : rt.token # token)]

\* cleanupExpiredTokens keeping every entry
cleanupExpiredTokens_KeepsAll(user, t) ==
    [user EXCEPT !.refreshTokens = SelectSeq(user.refreshTokens, LAMBDA rt : rt.expiresAt >= 0)]

\* cleanupExpiredTokens dropping every entry
cleanupExpiredTokens_All(user, t) ==
    [user EXCEPT !.refreshTokens = SelectSeq(user.refreshTokens, LAMBDA rt : rt.expiresAt > rt.expiresAt + t)]

cleanupExpiredTokens(user, t) ==
    [user EXCEPT !.refreshTokens = SelectSeq(user.refreshTokens, LAMBDA rt : rt.expiresAt > t)]

hasProvider(user, provider) ==
    \E k \in 1..Len(user.oauthProviders) : user.oauthProviders[k].provider = provider

\* linkOAuthProvider pushing an entry whether or not the provider is linked
linkOAuthProvider_AlwaysPush(user, provider, profile) ==
    [user EXCEPT
        !.oauthProviders = Append(user.oauthProviders,
                                  [provider |-> provider, providerId |-> profile.id]),
        !.googleId = IF provider = "google" THEN profile.id ELSE user.googleId,
        !.githubId = IF provider = "github" THEN profile.id ELSE user.githubId,
        !.isVerified = user.isVerified \/ profile.emailVerified]

linkOAuthProvider(user, provider, profile) ==
    LET linked ==
            IF hasProvider(user, provider)
            THEN [user EXCEPT !.oauthProviders =
                    [k \in 1..Len(user.oauthProviders) |->
                        IF user.oauthProviders[k].provider = provider
                        THEN [user.oauthProviders[k] EXCEPT !.providerId = profile.id]
                        ELSE user.oauthProviders[k]]]
            ELSE [user EXCEPT
                    !.oauthProviders = Append(user.oauthProviders,
                                              [provider |-> provider, providerId |-> profile.id]),
                    !.googleId = IF provider = "google" THEN profile.id ELSE user.googleId,
                    !.githubId = IF provider = "github" THEN profile.id ELSE user.githubId]
    IN  IF profile.emailVerified THEN [linked EXCEPT !.isVerified = TRUE] ELSE linked

unlinkOAuthProvider(user, provider) ==
    [user EXCEPT
        !.oauthProviders = SelectSeq(user.oauthProviders, LAMBDA p : p.provider # provider),
        !.googleId = IF provider = "google" THEN "" ELSE user.googleId,
        !.githubId = IF provider = "github" THEN "" ELSE user.githubId]

\* password.required: the password is required only when no provider id is set
passwordRequired(user) ==
    user.googleId = "" /\ user.githubId = ""

\* toJSON keeping the refreshTokens list
toJSON_KeepsTokens(user) ==
    [k \in DOMAIN user \ {"password"} |-> user[k]]

\* toJSON, which res.json applies to the user of a response body: password and
\* refreshTokens are deleted and each oauthProviders entry is cut down to its
\* provider (and its connectedAt, which the model does not carry); every other
\* path, googleId and githubId included, stays.
toJSON(user) ==
    [k \in DOMAIN user \ {"password", "refreshTokens"} |->
        IF k = "oauthProviders"
        THEN [i \in 1..Len(user.oauthProviders) |->
                 [provider |-> user.oauthProviders[i].provider]]
        ELSE user[k]]

\* user.loginAttempts as a route or a test reads it: userSchema declares no such
\* path and no method writes one, so the read gives undefined (NoDate).
loginAttempts(user) ==
    IF "loginAttempts" \in DOMAIN user THEN user.loginAttempts ELSE NoDate

\* user.isLocked: userSchema declares no such virtual and no lockUntil path,
\* so the read is undefined, which is falsy.
isLocked(user) ==
    IF "lockUntil" \in DOMAIN user THEN user.lockUntil > 0 ELSE FALSE

-----------------------------------------------------------------------------
(* Store queries *)

Ids == 1..Len(users)

\* User.findOne({ email }): _id of the document, NoUser when there is none
findByEmail(email) ==
    IF \E i \in Ids : users[i].email = email
    THEN CHOOSE i \in Ids : users[i].email = email
    ELSE NoUser

\* User.findOne({ googleId }) / User.findOne({ githubId })
findByProviderId(provider, id) ==
    LET held(i) == IF provider = "google" THEN users[i].googleId ELSE users[i].githubId
    IN  IF \E i \in Ids : held(i) = id
        THEN CHOOSE i \in Ids : held(i) = id
        ELSE NoUser

\* User.findById(id)
findById(id) == IF id \in Ids THEN id ELSE NoUser

\* the membership test of /refresh answering yes for every token
hasToken_Always(user, token) ==
    Len(user.refreshTokens) >= 0

hasToken(user, token) ==
    \E k \in 1..Len(user.refreshTokens) : user.refreshTokens[k].token = token

tokensOf(user) == {user.refreshTokens[k].token : k \in 1..Len(user.refreshTokens)}

-----------------------------------------------------------------------------
(* The last request and its response *)

\* The body of a response that carries no user object
NoBody == [none |-> TRUE]

\* arg is the token the request carried (the refresh token for /refresh and
\* /logout, the bearer token for /me); bearer is the access token an answered
\* /logout was authenticated with; email is the email of the assertion an
\* OAuth callback signed a user in with; body is the user object of the
\* response as res.json serialises it; loaded is the length of refreshTokens
\* in the document a request whose load and save are separate steps loaded.
Response(op, uid, status, msg, arg, access, refresh) ==
    [op |-> op, user |-> uid, status |-> status, msg |-> msg,
     arg |-> arg, accessToken |-> access, refreshToken |-> refresh,
     lenBefore |-> IF uid \in Ids THEN Len(users[uid].refreshTokens) ELSE 0,
     bearer |-> NoToken, email |-> "", body |-> NoBody, loaded |-> 0]

\* streak: n consecutive wrong-password logins of account user, the
\* LockThreshold-th of them at time at, the last login attempt (fail or ok) at
\* time lastAt.
NoStreak == [user |-> NoUser, n |-> 0, at |-> NoDate, last |-> "none", lastAt |-> NoDate]

ShippedConfig ==
    [accessSecret |-> "access-secret", refreshSecret |-> "refresh-secret", enableSSO |-> FALSE,
     keepAtomics |-> TRUE]

InitWith(config) ==
    /\ users = << >>
    /\ now = 0
    /\ ticks = 0
    /\ cfg = config
    /\ issued = {}
    /\ revoked = {}
    /\ pwChanged = << >>
    /\ streak = NoStreak
    /\ resp = Response("none", NoUser, 0, "", NoToken, NoToken, NoToken)
    /\ inflight = EmptyBag
    /\ hits = 0

\* The process with the sign-in providers switched on or off (config/features.js).
Init == \E sso \in BOOLEAN : InitWith([ShippedConfig EXCEPT !.enableSSO = sso])

-----------------------------------------------------------------------------
(* src/src/middleware/auth.js *)

\* authenticate without the isActive test
authenticate_IgnoresActive(token) ==
    IF token = NoToken
    THEN [ok |-> FALSE, user |-> NoUser, status |-> 401, msg |-> "No token provided"]
    ELSE IF ~verifyAccessToken(token, cfg.accessSecret, now)
    THEN [ok |-> FALSE, user |-> NoUser, status |-> 500,
          msg |-> "Invalid or expired access token"]
    ELSE IF findById(token.userId) = NoUser
    THEN [ok |-> FALSE, user |-> NoUser, status |-> 401, msg |-> "User not found or inactive"]
    ELSE IF changedPasswordAfter(users[token.userId], token.iat)
    THEN [ok |-> FALSE, user |-> NoUser, status |-> 401,
          msg |-> "Password recently changed. Please login again."]
    ELSE [ok |-> TRUE, user |-> token.userId, status |-> 200, msg |-> ""]

\* authenticate: the user attached to the request, or the error passed to the
\* error handler (status and message as errorHandler answers them).
authenticate(token) ==
    IF token = NoToken
    THEN [ok |-> FALSE, user |-> NoUser, status |-> 401, msg |-> "No token provided"]
    ELSE IF ~verifyAccessToken(token, cfg.accessSecret, now)
    THEN [ok |-> FALSE, user |-> NoUser, status |-> 500,
          msg |-> "Invalid or expired access token"]
    ELSE IF findById(token.userId) = NoUser \/ ~users[token.userId].isActive
    THEN [ok |-> FALSE, user |-> NoUser, status |-> 401, msg |-> "User not found or inactive"]
    ELSE IF changedPasswordAfter(users[token.userId], token.iat)
    THEN [ok |-> FALSE, user |-> NoUser, status |-> 401,
          msg |-> "Password recently changed. Please login again."]
    ELSE [ok |-> TRUE, user |-> token.userId, status |-> 200, msg |-> ""]

\* authenticateOptional: the user attached to the request; no user, and no
\* error, when the header is missing or the token or its user is refused.
authenticateOptional(token) ==
    IF token = NoToken
    THEN NoUser
    ELSE IF ~verifyAccessToken(token, cfg.accessSecret, now)
    THEN NoUser
    ELSE IF /\ findById(token.userId) # NoUser
            /\ users[token.userId].isActive
            /\ ~changedPasswordAfter(users[token.userId], token.iat)
    THEN token.userId
    ELSE NoUser

\* The request as authorize sees it: the bearer token of its header and the
\* user an earlier middleware attached (req.user).
Request(token, reqUser) == [token |-> token, user |-> reqUser]

\* authorize reading the role claim of the bearer token
authorize_TokenRole(roles, req) ==
    IF req.user = NoUser
    THEN [ok |-> FALSE, status |-> 401, msg |-> "Not authenticated"]
    ELSE IF req.token.role \notin roles
    THEN [ok |-> FALSE, status |-> 403, msg |-> "Insufficient permissions"]
    ELSE [ok |-> TRUE, status |-> 200, msg |-> ""]

\* authorize(...roles): next() or the error passed to the error handler.
\* req.user is the document the authentication middleware loaded.
authorize(roles, req) ==
    IF req.user = NoUser
    THEN [ok |-> FALSE, status |-> 401, msg |-> "Not authenticated"]
    ELSE IF users[req.user].role \notin roles
    THEN [ok |-> FALSE, status |-> 403, msg |-> "Insufficient permissions"]
    ELSE [ok |-> TRUE, status |-> 200, msg |-> ""]


-----------------------------------------------------------------------------
(* src/src/routes/auth.js *)

\* POST /register, behind whatever the rate limiter does with its counter
RegisterHandler(email, password) ==
    IF password \in WeakPasswords
    THEN /\ resp' = Response("register", NoUser, 400, "Password must be at least 8 characters",
                             NoToken, NoToken, NoToken)
         /\ UNCHANGED <<users, now, ticks, cfg, issued, revoked, pwChanged, streak, inflight>>
    ELSE
    IF findByEmail(email) # NoUser
    THEN /\ resp' = Response("register", NoUser, 400, "User already exists with this email",
                             NoToken, NoToken, NoToken)
         /\ UNCHANGED <<users, now, ticks, cfg, issued, revoked, pwChanged, streak, inflight>>
    ELSE LET id == Len(users) + 1
             created == preSave(NewUser(email, <<"plain", password>>, "", "", << >>, FALSE), TRUE)
             accessToken == generateAccessToken(id, created.role, cfg.accessSecret, now)
             refreshToken == generateRefreshToken(id, cfg.refreshSecret, now)
             saved == preSave(addRefreshToken(created, refreshToken, REFRESH_TOKEN_EXPIRY, now),
                              FALSE)
         IN  /\ users' = Append(users, saved)
             /\ pwChanged' = Append(pwChanged, NoDate)
             /\ issued' = issued \cup {accessToken, refreshToken}
             /\ resp' = [Response("register", id, 201, "", NoToken, accessToken, refreshToken)
                            EXCEPT !.body = toJSON(saved)]
             /\ UNCHANGED <<now, ticks, cfg, revoked, streak, inflight>>

\* POST /register of a client the rate limiter lets through
Register(email, password) ==
    /\ RegisterHandler(email, password)
    /\ UNCHANGED hits

\* The limiter mounted on /api/ (app.use('/api/', apiLimiter)): every request
\* of the window is counted, and a request is answered 429 when the count
\* has passed max.  The count is not followed beyond max + 1.
apiLimiterCount(n) == IF n > ApiLimiterMax THEN n ELSE n + 1

\* POST /api/v1/auth/register as the application serves it: apiLimiter, then
\* the route's own middleware chain, which holds the validators and the handler
\* and neither authLimiter nor strictAuthLimiter.
RegisterRequest(email, password) ==
    /\ hits' = apiLimiterCount(hits)
    /\ IF hits + 1 > ApiLimiterMax
       THEN /\ resp' = Response("register", NoUser, 429,
                                "Too many requests. Please try again later.",
                                NoToken, NoToken, NoToken)
            /\ UNCHANGED <<users, now, ticks, cfg, issued, revoked, pwChanged, streak, inflight>>
       ELSE RegisterHandler(email, password)

\* The limiter's window ends: the counts are reset.
WindowEnds ==
    /\ ticks < MaxTicks
    /\ now' = now + ApiLimiterWindowMs
    /\ ticks' = ticks + 1
    /\ hits' = 0
    /\ UNCHANGED <<users, cfg, issued, revoked, pwChanged, streak, resp, inflight>>

\* POST /register when user.save() after addRefreshToken rejects: User.create
\* has already stored the user, the catch block answers 500.
RegisterSaveFails(email, password) ==
    /\ password \notin WeakPasswords
    /\ findByEmail(email) = NoUser
    /\ users' = Append(users,
                       preSave(NewUser(email, <<"plain", password>>, "", "", << >>, FALSE), TRUE))
    /\ pwChanged' = Append(pwChanged, NoDate)
    /\ resp' = Response("register", Len(users) + 1, 500, "Registration failed",
                        NoToken, NoToken, NoToken)
    /\ UNCHANGED <<now, ticks, cfg, issued, revoked, streak, inflight, hits>>

\* POST /login, without the bookkeeping of the history variable streak
LoginHandler(email, password) ==
    LET id == findByEmail(email) IN
    IF id = NoUser \/ (id # NoUser /\ ~comparePassword(users[id], password))
    THEN /\ resp' = Response("login", id, 401, "Invalid email or password",
                             NoToken, NoToken, NoToken)
         /\ UNCHANGED <<users, now, ticks, cfg, issued, revoked, pwChanged, inflight, hits>>
    ELSE IF ~users[id].isActive
    THEN /\ resp' = Response("login", id, 401, "Account is inactive. Please contact support.",
                             NoToken, NoToken, NoToken)
         /\ UNCHANGED <<users, now, ticks, cfg, issued, revoked, pwChanged, inflight, hits>>
    ELSE LET accessToken == generateAccessToken(id, users[id].role, cfg.accessSecret, now)
             refreshToken == generateRefreshToken(id, cfg.refreshSecret, now)
             added == addRefreshToken(users[id], refreshToken, REFRESH_TOKEN_EXPIRY, now)
             stamped == [added EXCEPT !.lastLogin = now]
             saved == preSave(cleanupExpiredTokens(stamped, now), FALSE)
         IN  /\ users' = [users EXCEPT ![id] = saved]
             /\ issued' = issued \cup {accessToken, refreshToken}
             /\ resp' = [Response("login", id, 200, "", NoToken, accessToken, refreshToken)
                            EXCEPT !.body = toJSON([saved EXCEPT !.password = NoPassword])]
             /\ UNCHANGED <<now, ticks, cfg, revoked, pwChanged, inflight, hits>>

Login(email, password) ==
    /\ LoginHandler(email, password)
    /\ UNCHANGED streak

\* POST /login, counting the consecutive wrong-password attempts on an account
LoginCounted(email, password) ==
    LET id == findByEmail(email)
        run == IF streak.user = id /\ streak.last = "fail" THEN streak.n ELSE 0
    IN
    /\ run < MaxStreak
    /\ LoginHandler(email, password)
    /\ streak' =
          IF id = NoUser THEN streak
          ELSE IF ~comparePassword(users[id], password)
          THEN [user |-> id, n |-> run + 1,
                at |-> IF run + 1 = LockThreshold THEN now
                       ELSE IF run = 0 THEN NoDate ELSE streak.at,
                last |-> "fail", lastAt |-> now]
          ELSE [user |-> id, n |-> run,
                at |-> IF run = 0 THEN NoDate ELSE streak.at,
                last |-> "ok", lastAt |-> now]

\* POST /refresh
Refresh(refreshToken) ==
    LET id == findById(refreshToken.userId)
        fail(status, msg) ==
            /\ resp' = Response("refresh", id, status, msg, refreshToken, NoToken, NoToken)
            /\ UNCHANGED <<users, now, ticks, cfg, issued, revoked, pwChanged, streak, inflight, hits>>
    IN
    IF refreshToken = NoToken
    THEN fail(400, "Refresh token required")
    ELSE IF ~verifyRefreshToken(refreshToken, cfg.refreshSecret, now)
    THEN fail(401, "Invalid or expired refresh token")
    ELSE IF id = NoUser \/ (id # NoUser /\ ~users[id].isActive)
    THEN fail(401, "User not found or inactive")
    ELSE IF ~hasToken(users[id], refreshToken)
    THEN fail(401, "Invalid refresh token")
    ELSE LET saved == preSave(cleanupExpiredTokens(users[id], now), FALSE)
             accessToken == generateAccessToken(id, saved.role, cfg.accessSecret, now)
         IN  /\ users' = [users EXCEPT ![id] = saved]
             /\ issued' = issued \cup {accessToken}
             /\ resp' = Response("refresh", id, 200, "", refreshToken, accessToken, NoToken)
             /\ UNCHANGED <<now, ticks, cfg, revoked, pwChanged, streak, inflight, hits>>

\* POST /logout
Logout(accessToken, refreshToken) ==
    LET auth == authenticate(accessToken) IN
    IF ~auth.ok
    THEN /\ resp' = Response("logout", NoUser, auth.status, auth.msg, refreshToken,
                             NoToken, NoToken)
         /\ UNCHANGED <<users, now, ticks, cfg, issued, revoked, pwChanged, streak, inflight, hits>>
    ELSE /\ users' = IF refreshToken # NoToken
                     THEN [users EXCEPT ![auth.user] =
                             preSave(removeRefreshToken(users[auth.user], refreshToken), FALSE)]
                     ELSE users
         /\ revoked' = IF refreshToken.type = "refresh" /\ refreshToken.userId = auth.user
                          /\ refreshToken \in issued
                       THEN revoked \cup {refreshToken}
                       ELSE revoked
         /\ resp' = [Response("logout", auth.user, 200, "Logged out successfully", refreshToken,
                              NoToken, NoToken) EXCEPT !.bearer = accessToken]
         /\ UNCHANGED <<now, ticks, cfg, issued, pwChanged, streak, inflight, hits>>

\* POST /logout when req.user.save() rejects: the inner catch logs the error
\* and the route still answers success.
LogoutSaveFails(accessToken, refreshToken) ==
    LET auth == authenticate(accessToken) IN
    /\ auth.ok
    /\ refreshToken # NoToken
    /\ resp' = [Response("logout", auth.user, 200, "Logged out successfully", refreshToken,
                         NoToken, NoToken) EXCEPT !.bearer = accessToken]
    /\ UNCHANGED <<users, now, ticks, cfg, issued, revoked, pwChanged, streak, inflight, hits>>

\* GET /me
GetMe(accessToken) ==
    LET auth == authenticate(accessToken) IN
    /\ resp' = [Response("me", auth.user, auth.status, auth.msg, accessToken, NoToken, NoToken)
                    EXCEPT !.body = IF auth.ok THEN toJSON(users[auth.user]) ELSE NoBody]
    /\ UNCHANGED <<users, now, ticks, cfg, issued, revoked, pwChanged, streak, inflight, hits>>

\* A route behind authenticate (or authenticateOptional) and authorize(roles)
RoleRoute(accessToken, roles, optional) ==
    LET auth == authenticate(accessToken)
        reqUser == IF optional THEN authenticateOptional(accessToken) ELSE auth.user
        authz == authorize(roles, Request(accessToken, reqUser))
    IN
    /\ resp' = IF ~optional /\ ~auth.ok
               THEN Response("authorize", NoUser, auth.status, auth.msg,
                             accessToken, NoToken, NoToken)
               ELSE Response("authorize", reqUser, authz.status, authz.msg,
                             accessToken, NoToken, NoToken)
    /\ UNCHANGED <<users, now, ticks, cfg, issued, revoked, pwChanged, streak, inflight, hits>>

\* req.body.name left out of the request
AbsentName == "<absent>"

\* PATCH /profile
UpdateProfile(accessToken, name) ==
    LET auth == authenticate(accessToken)
        answer(status, msg) ==
            Response("profile", auth.user, status, msg, accessToken, NoToken, NoToken)
    IN
    IF ~auth.ok
    THEN /\ resp' = answer(auth.status, auth.msg)
         /\ UNCHANGED <<users, now, ticks, cfg, issued, revoked, pwChanged, streak, inflight, hits>>
    ELSE IF name = ""
    THEN /\ resp' = answer(400, "Name cannot be empty")
         /\ UNCHANGED <<users, now, ticks, cfg, issued, revoked, pwChanged, streak, inflight, hits>>
    ELSE LET named == IF name # AbsentName
                      THEN [users[auth.user] EXCEPT !.name = name]
                      ELSE users[auth.user]
             saved == preSave(named, FALSE)
         IN  /\ users' = [users EXCEPT ![auth.user] = saved]
             /\ resp' = [answer(200, "") EXCEPT !.body = toJSON(saved)]
             /\ UNCHANGED <<now, ticks, cfg, issued, revoked, pwChanged, streak, inflight, hits>>

-----------------------------------------------------------------------------
(* src/src/config/passport.js *)

NoEmail == ""

\* The verify callback of GoogleStrategy / GitHubStrategy: the store after it,
\* and the user it hands to done() (NoUser when it hands over an error).
\* GitHub profiles count as verified; Google's carry emails[0].verified.
\* The verify callback without a test for a missing email
StrategyVerify_NoEmailCheck(provider, profile) ==
    LET verified == IF provider = "github" THEN TRUE ELSE profile.emailVerified
        byId == findByProviderId(provider, profile.id)
        byEmail == findByEmail(profile.email)
    IN
    IF byId # NoUser
    THEN [store |-> [users EXCEPT ![byId].lastLogin = now], user |-> byId]
    ELSE IF byEmail # NoUser
    THEN LET linked == linkOAuthProvider(users[byEmail], provider,
                                         [id |-> profile.id, emailVerified |-> verified])
         IN  [store |-> [users EXCEPT ![byEmail] = [preSave(linked, FALSE) EXCEPT !.lastLogin = now]],
              user |-> byEmail]
    ELSE LET created ==
                 NewUser(profile.email, NoPassword,
                         IF provider = "google" THEN profile.id ELSE "",
                         IF provider = "github" THEN profile.id ELSE "",
                         << [provider |-> provider, providerId |-> profile.id] >>,
                         verified)
         IN  [store |-> Append(users, [preSave(created, TRUE) EXCEPT !.lastLogin = now]),
              user |-> Len(users) + 1]

\* The verify callback looking the user up by email before the provider id
StrategyVerify_EmailFirst(provider, profile) ==
    LET verified == IF provider = "github" THEN TRUE ELSE profile.emailVerified
        byId == findByProviderId(provider, profile.id)
        byEmail == findByEmail(profile.email)
    IN
    IF profile.email = NoEmail
    THEN [store |-> users, user |-> NoUser]
    ELSE IF byEmail # NoUser
    THEN LET linked == linkOAuthProvider(users[byEmail], provider,
                                         [id |-> profile.id, emailVerified |-> verified])
         IN  [store |-> [users EXCEPT ![byEmail] = [preSave(linked, FALSE) EXCEPT !.lastLogin = now]],
              user |-> byEmail]
    ELSE IF byId # NoUser
    THEN [store |-> [users EXCEPT ![byId].lastLogin = now], user |-> byId]
    ELSE LET created ==
                 NewUser(profile.email, NoPassword,
                         IF provider = "google" THEN profile.id ELSE "",
                         IF provider = "github" THEN profile.id ELSE "",
                         << [provider |-> provider, providerId |-> profile.id] >>,
                         verified)
         IN  [store |-> Append(users, [preSave(created, TRUE) EXCEPT !.lastLogin = now]),
              user |-> Len(users) + 1]

StrategyVerify(provider, profile) ==
    LET verified == IF provider = "github" THEN TRUE ELSE profile.emailVerified
        byId == findByProviderId(provider, profile.id)
        byEmail == findByEmail(profile.email)
    IN
    IF profile.email = NoEmail
    THEN [store |-> users, user |-> NoUser]
    ELSE IF byId # NoUser
    THEN [store |-> [users EXCEPT ![byId].lastLogin = now], user |-> byId]
    ELSE IF byEmail # NoUser
    THEN LET linked == linkOAuthProvider(users[byEmail], provider,
                                         [id |-> profile.id, emailVerified |-> verified])
         IN  [store |-> [users EXCEPT ![byEmail] = [preSave(linked, FALSE) EXCEPT !.lastLogin = now]],
              user |-> byEmail]
    ELSE LET created ==
                 NewUser(profile.email, NoPassword,
                         IF provider = "google" THEN profile.id ELSE "",
                         IF provider = "github" THEN profile.id ELSE "",
                         << [provider |-> provider, providerId |-> profile.id] >>,
                         verified)
         IN  [store |-> Append(users, [preSave(created, TRUE) EXCEPT !.lastLogin = now]),
              user |-> Len(users) + 1]

\* GET /google/callback, GET /github/callback
OAuthCallback(provider, profile) ==
    LET fail(status, msg) ==
            /\ resp' = Response(provider, NoUser, status, msg, NoToken, NoToken, NoToken)
            /\ UNCHANGED <<users, now, ticks, cfg, issued, revoked, pwChanged, streak, inflight, hits>>
        done == StrategyVerify(provider, profile)
    IN
    IF ~cfg.enableSSO
    THEN fail(403, IF provider = "google" THEN "Google SSO is currently disabled"
                   ELSE "GitHub SSO is currently disabled")
    ELSE IF done.user = NoUser
    THEN fail(500, IF provider = "google"
                   THEN "Cannot read properties of undefined (reading '0')"
                   ELSE "Email not provided by GitHub")
    ELSE LET id == done.user
             accessToken == generateAccessToken(id, done.store[id].role, cfg.accessSecret, now)
             refreshToken == generateRefreshToken(id, cfg.refreshSecret, now)
             saved == preSave(addRefreshToken(done.store[id], refreshToken,
                                              REFRESH_TOKEN_EXPIRY, now), FALSE)
         IN  /\ users' = [done.store EXCEPT ![id] = saved]
             /\ pwChanged' = IF id > Len(users) THEN Append(pwChanged, NoDate) ELSE pwChanged
             /\ issued' = issued \cup {accessToken, refreshToken}
             /\ resp' = [Response(provider, id, 302, "", NoToken, accessToken, refreshToken)
                            EXCEPT !.email = profile.email]
             /\ UNCHANGED <<now, ticks, cfg, revoked, streak, inflight, hits>>

-----------------------------------------------------------------------------
(* Requests running concurrently: each await of a handler is a point where
   another request may run.  A request loads its user document in one step
   and saves it in a later one. *)

\* The most requests in flight at once
MaxInflight == 3

\* A request between its load and its save: doc is the document as loaded,
\* stale says that the stored document's version (__v) has moved on since.
InFlight(op, id, doc, arg, bearer, email) ==
    [op |-> op, id |-> id, doc |-> doc, arg |-> arg, bearer |-> bearer, email |-> email,
     stale |-> FALSE]

Admit(r) == inflight (+) SetToBag({r})

Retire(r) == inflight (-) SetToBag({r})

\* The stored version of user id was incremented: every other loaded copy of
\* that document is now behind it.
Outdate(id, B) ==
    LET mark(r) == IF r.id = id THEN [r EXCEPT !.stale = TRUE] ELSE r
    IN  BagOfAll(mark, B)

\* The update save() sends for the refreshTokens path.  before is the array as
\* loaded, afterPush the array after addRefreshToken's push (before itself
\* when nothing was pushed), final the array after the assignments that
\* followed (slice, filter), reassigned whether any assignment followed.  A
\* push alone is sent as $push and increments the version; an assignment that
\* changed the array is sent as $set of the whole array, which matches only
\* the loaded version and increments it; an assignment of an equal array after
\* a push keeps the $push or replaces it by $set, depending on the build
\* (cfg.keepAtomics); an assignment of an equal array without a push sends
\* nothing.
saveKind(before, afterPush, final, reassigned) ==
    IF final # afterPush THEN "set"
    ELSE IF afterPush = before THEN "none"
    ELSE IF reassigned /\ ~cfg.keepAtomics THEN "set"
    ELSE "push"

\* save() without the version condition on $set
versionConflict_Never(r, kind) ==
    kind = "set" /\ r.stale /\ r.stale # r.stale

\* save() rejects with VersionError: a $set of the array finds no document of
\* the loaded version.
versionConflict(r, kind) ==
    kind = "set" /\ r.stale

\* The stored document after save() of the copy local that was loaded as
\* loaded: only the modified paths are written.
storedAfterSave(stored, loaded, local, kind) ==
    [stored EXCEPT
        !.refreshTokens =
            IF kind = "push" THEN Append(@, local.refreshTokens[Len(local.refreshTokens)])
            ELSE IF kind = "set" THEN local.refreshTokens
            ELSE @,
        !.lastLogin = IF local.lastLogin # loaded.lastLogin THEN local.lastLogin ELSE @]

\* save(): the store and the in-flight requests after request r saved local
commit(r, local, kind) ==
    /\ users' = [users EXCEPT ![r.id] = storedAfterSave(users[r.id], r.doc, local, kind)]
    /\ inflight' = IF kind = "none" THEN Retire(r) ELSE Outdate(r.id, Retire(r))

\* The first insert of an email when the collection had no unique index on it
duplicateKey_NoIndex(email) ==
    findByEmail(email) # NoUser /\ email # email

\* User.create rejects with E11000: the unique index on email holds the key.
duplicateKey(email) ==
    findByEmail(email) # NoUser

\* POST /register up to the await of User.findOne
RegisterRead(email, password) ==
    IF password \in WeakPasswords
    THEN /\ resp' = Response("register", NoUser, 400, "Password must be at least 8 characters",
                             NoToken, NoToken, NoToken)
         /\ UNCHANGED <<users, now, ticks, cfg, issued, revoked, pwChanged, streak, inflight, hits>>
    ELSE IF findByEmail(email) # NoUser
    THEN /\ resp' = [Response("register", NoUser, 400, "User already exists with this email",
                              NoToken, NoToken, NoToken) EXCEPT !.email = email]
         /\ UNCHANGED <<users, now, ticks, cfg, issued, revoked, pwChanged, streak, inflight, hits>>
    ELSE /\ BagCardinality(inflight) < MaxInflight
         /\ inflight' = Admit(InFlight("register", NoUser,
                                       NewUser(email, <<"plain", password>>, "", "", << >>, FALSE),
                                       NoToken, NoToken, email))
         /\ UNCHANGED <<users, now, ticks, cfg, issued, revoked, pwChanged, streak, resp, hits>>

\* POST /register from User.findOne's answer to the await of User.create
RegisterCreate(r) ==
    /\ r \in BagToSet(inflight)
    /\ r.op = "register"
    /\ IF duplicateKey(r.email)
       THEN /\ resp' = [Response("register", NoUser, 500, "Registration failed",
                                 NoToken, NoToken, NoToken) EXCEPT !.email = r.email]
            /\ inflight' = Retire(r)
            /\ UNCHANGED <<users, pwChanged>>
       ELSE LET created == preSave(r.doc, TRUE) IN
            /\ genSalt <= MaxSalt
            /\ users' = Append(users, created)
            /\ pwChanged' = Append(pwChanged, NoDate)
            /\ inflight' = Retire(r) (+) SetToBag({InFlight("created", Len(users) + 1, created,
                                                            NoToken, NoToken, r.email)})
            /\ UNCHANGED resp
    /\ UNCHANGED <<now, ticks, cfg, issued, revoked, streak, hits>>

\* POST /register from User.create's answer to the response
RegisterWrite(r) ==
    LET id == r.id
        accessToken == generateAccessToken(id, r.doc.role, cfg.accessSecret, now)
        refreshToken == generateRefreshToken(id, cfg.refreshSecret, now)
        pushed == Append(r.doc.refreshTokens,
                         [token |-> refreshToken,
                          expiresAt |-> now + REFRESH_TOKEN_EXPIRY * MsPerSecond])
        local == addRefreshToken(r.doc, refreshToken, REFRESH_TOKEN_EXPIRY, now)
        kind == saveKind(r.doc.refreshTokens, pushed, local.refreshTokens,
                         Len(pushed) > MaxRefreshTokens)
    IN
    /\ r \in BagToSet(inflight)
    /\ r.op = "created"
    /\ IF versionConflict(r, kind)
       THEN /\ resp' = [Response("register", id, 500, "Registration failed",
                                 NoToken, NoToken, NoToken) EXCEPT !.email = r.email]
            /\ inflight' = Retire(r)
            /\ UNCHANGED <<users, issued>>
       ELSE /\ commit(r, local, kind)
            /\ issued' = issued \cup {accessToken, refreshToken}
            /\ resp' = [Response("register", id, 201, "", NoToken, accessToken, refreshToken)
                           EXCEPT !.body = toJSON(local), !.email = r.email,
                                  !.loaded = Len(r.doc.refreshTokens)]
    /\ UNCHANGED <<now, ticks, cfg, revoked, pwChanged, streak, hits>>

\* POST /login up to the await of user.comparePassword
LoginRead(email, password) ==
    LET id == findByEmail(email) IN
    IF id = NoUser \/ (id # NoUser /\ ~comparePassword(users[id], password))
    THEN /\ resp' = Response("login", id, 401, "Invalid email or password",
                             NoToken, NoToken, NoToken)
         /\ UNCHANGED <<users, now, ticks, cfg, issued, revoked, pwChanged, streak, inflight, hits>>
    ELSE IF ~users[id].isActive
    THEN /\ resp' = Response("login", id, 401, "Account is inactive. Please contact support.",
                             NoToken, NoToken, NoToken)
         /\ UNCHANGED <<users, now, ticks, cfg, issued, revoked, pwChanged, streak, inflight, hits>>
    ELSE /\ BagCardinality(inflight) < MaxInflight
         /\ inflight' = Admit(InFlight("login", id, users[id], NoToken, NoToken, email))
         /\ UNCHANGED <<users, now, ticks, cfg, issued, revoked, pwChanged, streak, resp, hits>>

\* POST /login from comparePassword's answer to the response
LoginWrite(r) ==
    LET id == r.id
        accessToken == generateAccessToken(id, r.doc.role, cfg.accessSecret, now)
        refreshToken == generateRefreshToken(id, cfg.refreshSecret, now)
        pushed == Append(r.doc.refreshTokens,
                         [token |-> refreshToken,
                          expiresAt |-> now + REFRESH_TOKEN_EXPIRY * MsPerSecond])
        added == addRefreshToken(r.doc, refreshToken, REFRESH_TOKEN_EXPIRY, now)
        local == cleanupExpiredTokens([added EXCEPT !.lastLogin = now], now)
        kind == saveKind(r.doc.refreshTokens, pushed, local.refreshTokens, TRUE)
    IN
    /\ r \in BagToSet(inflight)
    /\ r.op = "login"
    /\ IF versionConflict(r, kind)
       THEN /\ resp' = [Response("login", id, 500, "Login failed", NoToken, NoToken, NoToken)
                           EXCEPT !.loaded = Len(r.doc.refreshTokens)]
            /\ inflight' = Retire(r)
            /\ UNCHANGED <<users, issued>>
       ELSE /\ commit(r, local, kind)
            /\ issued' = issued \cup {accessToken, refreshToken}
            /\ resp' = [Response("login", id, 200, "", NoToken, accessToken, refreshToken)
                           EXCEPT !.body = toJSON([local EXCEPT !.password = NoPassword]),
                                  !.loaded = Len(r.doc.refreshTokens)]
    /\ UNCHANGED <<now, ticks, cfg, revoked, pwChanged, streak, hits>>

\* GET /google/callback, GET /github/callback up to the end of the strategy's
\* verify callback, which has saved the user it found, linked or created
CallbackRead(provider, profile) ==
    LET fail(status, msg) ==
            /\ resp' = Response(provider, NoUser, status, msg, NoToken, NoToken, NoToken)
            /\ UNCHANGED <<users, now, ticks, cfg, issued, revoked, pwChanged, streak, inflight, hits>>
        done == StrategyVerify(provider, profile)
        id == done.user
        linked == id <= Len(users) /\ done.store[id].oauthProviders # users[id].oauthProviders
    IN
    IF ~cfg.enableSSO
    THEN fail(403, IF provider = "google" THEN "Google SSO is currently disabled"
                   ELSE "GitHub SSO is currently disabled")
    ELSE IF done.user = NoUser
    THEN fail(500, IF provider = "google"
                   THEN "Cannot read properties of undefined (reading '0')"
                   ELSE "Email not provided by GitHub")
    ELSE /\ BagCardinality(inflight) < MaxInflight
         /\ users' = done.store
         /\ pwChanged' = IF id > Len(users) THEN Append(pwChanged, NoDate) ELSE pwChanged
         /\ inflight' = (IF linked THEN Outdate(id, inflight) ELSE inflight)
                            (+) SetToBag({InFlight(provider, id, done.store[id], NoToken, NoToken,
                                                   profile.email)})
         /\ UNCHANGED <<now, ticks, cfg, issued, revoked, streak, resp, hits>>

\* GET /google/callback, GET /github/callback from the route handler to the
\* redirect
CallbackWrite(r) ==
    LET id == r.id
        accessToken == generateAccessToken(id, r.doc.role, cfg.accessSecret, now)
        refreshToken == generateRefreshToken(id, cfg.refreshSecret, now)
        pushed == Append(r.doc.refreshTokens,
                         [token |-> refreshToken,
                          expiresAt |-> now + REFRESH_TOKEN_EXPIRY * MsPerSecond])
        local == addRefreshToken(r.doc, refreshToken, REFRESH_TOKEN_EXPIRY, now)
        kind == saveKind(r.doc.refreshTokens, pushed, local.refreshTokens,
                         Len(pushed) > MaxRefreshTokens)
    IN
    /\ r \in BagToSet(inflight)
    /\ r.op \in {"google", "github"}
    /\ IF versionConflict(r, kind)
       THEN /\ resp' = [Response(r.op, id, 302, "No matching document found",
                                 NoToken, NoToken, NoToken)
                           EXCEPT !.email = r.email, !.loaded = Len(r.doc.refreshTokens)]
            /\ inflight' = Retire(r)
            /\ UNCHANGED <<users, issued>>
       ELSE /\ commit(r, local, kind)
            /\ issued' = issued \cup {accessToken, refreshToken}
            /\ resp' = [Response(r.op, id, 302, "", NoToken, accessToken, refreshToken)
                           EXCEPT !.email = r.email, !.loaded = Len(r.doc.refreshTokens)]
    /\ UNCHANGED <<now, ticks, cfg, revoked, pwChanged, streak, hits>>

\* POST /refresh up to the await of User.findById
RefreshRead(refreshToken) ==
    LET id == findById(refreshToken.userId)
        fail(status, msg) ==
            /\ resp' = Response("refresh", id, status, msg, refreshToken, NoToken, NoToken)
            /\ UNCHANGED <<users, now, ticks, cfg, issued, revoked, pwChanged, streak, inflight, hits>>
    IN
    IF refreshToken = NoToken
    THEN fail(400, "Refresh token required")
    ELSE IF ~verifyRefreshToken(refreshToken, cfg.refreshSecret, now)
    THEN fail(401, "Invalid or expired refresh token")
    ELSE IF id = NoUser \/ (id # NoUser /\ ~users[id].isActive)
    THEN fail(401, "User not found or inactive")
    ELSE /\ BagCardinality(inflight) < MaxInflight
         /\ inflight' = Admit(InFlight("refresh", id, users[id], refreshToken, NoToken,
                                       users[id].email))
         /\ UNCHANGED <<users, now, ticks, cfg, issued, revoked, pwChanged, streak, resp, hits>>

\* POST /refresh from User.findById's answer to the response
RefreshWrite(r) ==
    LET id == r.id
        local == cleanupExpiredTokens(r.doc, now)
        kind == saveKind(r.doc.refreshTokens, r.doc.refreshTokens, local.refreshTokens, TRUE)
        accessToken == generateAccessToken(id, r.doc.role, cfg.accessSecret, now)
        answer(status, msg, access) ==
            [Response("refresh", id, status, msg, r.arg, access, NoToken)
                EXCEPT !.loaded = Len(r.doc.refreshTokens)]
    IN
    /\ r \in BagToSet(inflight)
    /\ r.op = "refresh"
    /\ IF ~hasToken(r.doc, r.arg)
       THEN /\ resp' = answer(401, "Invalid refresh token", NoToken)
            /\ inflight' = Retire(r)
            /\ UNCHANGED <<users, issued>>
       ELSE IF versionConflict(r, kind)
       THEN /\ resp' = answer(401, "Invalid or expired refresh token", NoToken)
            /\ inflight' = Retire(r)
            /\ UNCHANGED <<users, issued>>
       ELSE /\ commit(r, local, kind)
            /\ issued' = issued \cup {accessToken}
            /\ resp' = answer(200, "", accessToken)
    /\ UNCHANGED <<now, ticks, cfg, revoked, pwChanged, streak, hits>>

\* POST /logout up to the end of authenticate, which has loaded req.user
LogoutRead(accessToken, refreshToken) ==
    LET auth == authenticate(accessToken) IN
    IF ~auth.ok
    THEN /\ resp' = Response("logout", NoUser, auth.status, auth.msg, refreshToken,
                             NoToken, NoToken)
         /\ UNCHANGED <<users, now, ticks, cfg, issued, revoked, pwChanged, streak, inflight, hits>>
    ELSE IF refreshToken = NoToken
    THEN /\ resp' = [Response("logout", auth.user, 200, "Logged out successfully", refreshToken,
                              NoToken, NoToken) EXCEPT !.bearer = accessToken]
         /\ UNCHANGED <<users, now, ticks, cfg, issued, revoked, pwChanged, streak, inflight, hits>>
    ELSE /\ BagCardinality(inflight) < MaxInflight
         /\ inflight' = Admit(InFlight("logout", auth.user, users[auth.user], refreshToken,
                                       accessToken, users[auth.user].email))
         /\ UNCHANGED <<users, now, ticks, cfg, issued, revoked, pwChanged, streak, resp, hits>>

\* POST /logout from the route handler to the response: a rejected save is
\* logged and the route answers success all the same
LogoutWrite(r) ==
    LET id == r.id
        local == removeRefreshToken(r.doc, r.arg)
        kind == saveKind(r.doc.refreshTokens, r.doc.refreshTokens, local.refreshTokens, TRUE)
    IN
    /\ r \in BagToSet(inflight)
    /\ r.op = "logout"
    /\ IF versionConflict(r, kind)
       THEN /\ inflight' = Retire(r)
            /\ UNCHANGED <<users, revoked>>
       ELSE /\ commit(r, local, kind)
            /\ revoked' = IF r.arg.type = "refresh" /\ r.arg.userId = id /\ r.arg \in issued
                          THEN revoked \cup {r.arg}
                          ELSE revoked
    /\ resp' = [Response("logout", id, 200, "Logged out successfully", r.arg, NoToken, NoToken)
                   EXCEPT !.bearer = r.bearer, !.loaded = Len(r.doc.refreshTokens)]
    /\ UNCHANGED <<now, ticks, cfg, issued, pwChanged, streak, hits>>

-----------------------------------------------------------------------------
(* Writes to a user document made outside the routes *)

\* user.isActive = false; user.save()
Deactivate(id) ==
    /\ id \in Ids
    /\ users[id].isActive
    /\ users' = [users EXCEPT ![id] = preSave([users[id] EXCEPT !.isActive = FALSE], FALSE)]
    /\ resp' = Response("deactivate", id, 0, "", NoToken, NoToken, NoToken)
    /\ UNCHANGED <<now, ticks, cfg, issued, revoked, pwChanged, streak, inflight, hits>>

\* user.role = role; user.save()
SetRole(id, role) ==
    /\ id \in Ids
    /\ users[id].role # role
    /\ users' = [users EXCEPT ![id] = preSave([users[id] EXCEPT !.role = role], FALSE)]
    /\ resp' = Response("role", id, 0, "", NoToken, NoToken, NoToken)
    /\ UNCHANGED <<now, ticks, cfg, issued, revoked, pwChanged, streak, inflight, hits>>

\* user.unlinkOAuthProvider(provider); user.save() on a document loaded without
\* its password (select: false): the required validator of the unselected
\* password path is not run and the save succeeds.
Unlink(id, provider) ==
    /\ id \in Ids
    /\ users' = [users EXCEPT ![id] = preSave(unlinkOAuthProvider(users[id], provider), FALSE)]
    /\ resp' = Response("unlink", id, 0, provider, NoToken, NoToken, NoToken)
    /\ UNCHANGED <<now, ticks, cfg, issued, revoked, pwChanged, streak, inflight, hits>>

\* The same on a document loaded with '+password': when the unlink leaves no
\* provider id and there is no password, save() rejects with a ValidationError
\* and the stored document stays as it was.
UnlinkSaveRejected(id, provider) ==
    /\ id \in Ids
    /\ users[id].password = NoPassword
    /\ passwordRequired(unlinkOAuthProvider(users[id], provider))
    /\ resp' = Response("unlink", id, 0, "ValidationError", NoToken, NoToken, NoToken)
    /\ UNCHANGED <<users, now, ticks, cfg, issued, revoked, pwChanged, streak, inflight, hits>>

\* user.password = newPassword; user.save()
ChangePassword(id, newPassword) ==
    /\ id \in Ids
    /\ genSalt <= MaxSalt
    /\ users' = [users EXCEPT ![id] =
                    preSave([users[id] EXCEPT !.password = <<"plain", newPassword>>], TRUE)]
    /\ pwChanged' = [pwChanged EXCEPT ![id] = now]
    /\ resp' = Response("password", id, 0, "", NoToken, NoToken, NoToken)
    /\ UNCHANGED <<now, ticks, cfg, issued, revoked, streak, inflight, hits>>

\* user.passwordChangedAt = new Date(); user.save()
SetPasswordChangedAt(id) ==
    /\ id \in Ids
    /\ users' = [users EXCEPT ![id] =
                    preSave([users[id] EXCEPT !.passwordChangedAt = now], FALSE)]
    /\ resp' = Response("passwordChangedAt", id, 0, "", NoToken, NoToken, NoToken)
    /\ UNCHANGED <<now, ticks, cfg, issued, revoked, pwChanged, streak, inflight, hits>>

\* The clock advances between requests.
Tick(d) ==
    /\ ticks < MaxTicks
    /\ now' = now + d
    /\ ticks' = ticks + 1
    /\ UNCHANGED <<users, cfg, issued, revoked, pwChanged, streak, resp, inflight, hits>>

Presentable == issued \cup {NoToken}
PresentableRefresh == {t \in issued : t.type = "refresh"} \cup {NoToken}
Tampered == {Tamper(t) : t \in issued}

Providers == {"google", "github"}
Profiles == [id : SubjectIds, email : Emails \cup {NoEmail}, emailVerified : {TRUE}]

\* Sessions: every route that touches the refresh-token list, and an account
\* being deactivated.
Next ==
    \/ \E e \in Emails : Register(e, "pw1")
    \/ \E e \in Emails, p \in Passwords : Login(e, p)
    \/ \E t \in Presentable : Refresh(t)
    \/ \E a \in Presentable, r \in PresentableRefresh : Logout(a, r)
    \/ \E pr \in Providers, pf \in Profiles : OAuthCallback(pr, pf)
    \/ \E i \in Ids : Deactivate(i)
    \/ \E d \in TickSteps : Tick(d)

Spec == Init /\ [][Next]_vars

\* Password lifecycle: password changes and the access tokens issued around them.
PasswordNext ==
    \/ \E e \in Emails : Register(e, "pw1")
    \/ \E e \in Emails, p \in Passwords : Login(e, p)
    \/ \E a \in Presentable : GetMe(a)
    \/ \E i \in Ids, p \in Passwords : ChangePassword(i, p)
    \/ \E i \in Ids : SetPasswordChangedAt(i)
    \/ \E d \in {SubSecondStep, MsPerSecond} : Tick(d)

PasswordSpec == InitWith(ShippedConfig) /\ [][PasswordNext]_vars

\* Lockout: runs of failed logins on one account.
LockoutNext ==
    \/ \E e \in Emails : Register(e, "pw1")
    \/ \E e \in Emails, p \in Passwords : LoginCounted(e, p)
    \/ \E d \in TickSteps : Tick(d)

LockoutSpec == InitWith(ShippedConfig) /\ [][LockoutNext]_vars

\* Account linking: Google sign-ins with two addresses and two provider subject
\* ids, and unlinking; all within one instant of the clock.
LinkEmails == {"a@x", "b@x"}
LinkSubjectIds == {"sub1", "sub2"}
LinkProfiles == [id : LinkSubjectIds, email : LinkEmails \cup {NoEmail}, emailVerified : {TRUE}]

LinkNext ==
    \/ \E e \in LinkEmails : Register(e, "pw1")
    \/ \E pf \in LinkProfiles : OAuthCallback("google", pf)
    \/ \E i \in Ids, pr \in Providers : Unlink(i, pr)
    \/ \E i \in Ids, pr \in Providers : UnlinkSaveRejected(i, pr)

LinkSpec == InitWith([ShippedConfig EXCEPT !.enableSSO = TRUE]) /\ [][LinkNext]_vars

\* Profiles: the routes that answer with a user object, for accounts made by
\* registration and by sign-in through a provider.
ProfileNames == {AbsentName, "", "renamed"}

ProfileNext ==
    \/ \E e \in Emails : Register(e, "pw1")
    \/ \E e \in Emails, p \in Passwords : Login(e, p)
    \/ \E pr \in Providers, pf \in Profiles : OAuthCallback(pr, pf)
    \/ \E a \in Presentable : GetMe(a)
    \/ \E a \in Presentable, n \in ProfileNames : UpdateProfile(a, n)

ProfileSpec == InitWith([ShippedConfig EXCEPT !.enableSSO = TRUE]) /\ [][ProfileNext]_vars

\* Password check: accounts registered with a short or a long password or
\* created by a Google sign-in, and logins with case variants and long
\* candidates.
CheckPasswords == {"pw1", "PW1"} \cup LongPasswords

CheckNext ==
    \/ \E e \in Emails, p \in {"pw1", "<72 bytes>a"} : Register(e, p)
    \/ \E e \in Emails, c \in CheckPasswords : Login(e, c)
    \/ \E pf \in Profiles : OAuthCallback("google", pf)
    \/ Tick(SubSecondStep)

CheckSpec == InitWith([ShippedConfig EXCEPT !.enableSSO = TRUE]) /\ [][CheckNext]_vars

\* Two accounts with their sessions: one of them logs in again a second after
\* it registered, and logouts may name any issued refresh token.
TwoUserNext ==
    \/ \E e \in LinkEmails : Register(e, "pw1")
    \/ \E e \in Emails : Login(e, "pw1")
    \/ \E a \in Presentable, r \in PresentableRefresh : Logout(a, r)
    \/ Tick(MsPerSecond)

TwoUserSpec == InitWith(ShippedConfig) /\ [][TwoUserNext]_vars

\* Saves: every route that saves a user document, and password changes.
HashNext ==
    \/ \E e \in Emails : Register(e, "pw1")
    \/ \E e \in Emails, p \in Passwords : Login(e, p)
    \/ \E t \in Presentable : Refresh(t)
    \/ \E a \in Presentable, r \in PresentableRefresh : Logout(a, r)
    \/ \E pr \in Providers, pf \in Profiles : OAuthCallback(pr, pf)
    \/ \E a \in Presentable, n \in ProfileNames : UpdateProfile(a, n)
    \/ \E i \in Ids, p \in Passwords : ChangePassword(i, p)

HashSpec == InitWith([ShippedConfig EXCEPT !.enableSSO = TRUE]) /\ [][HashNext]_vars

\* Rate limiting: one client registering through the API limiter.
RateEmails == {"user0@x", "user1@x"}

RateNext ==
    \/ \E e \in RateEmails : RegisterRequest(e, "pw1")
    \/ WindowEnds

RateSpec == InitWith(ShippedConfig) /\ [][RateNext]_vars

\* Roles: accounts whose stored role is changed while access tokens issued
\* under the old role are still presented.
RoleSets == {{"admin"}, {"user", "admin"}}

RoleNext ==
    \/ \E e \in Emails : Register(e, "pw1")
    \/ \E e \in Emails : Login(e, "pw1")
    \/ \E i \in Ids, r \in UNION RoleSets : SetRole(i, r)
    \/ \E i \in Ids : Deactivate(i)
    \/ \E a \in Presentable, roles \in RoleSets, optional \in BOOLEAN :
          RoleRoute(a, roles, optional)
    \/ Tick(MsPerSecond)

RoleSpec == InitWith(ShippedConfig) /\ [][RoleNext]_vars

\* The builds differ in how save() sends a push followed by the assignment of
\* an equal array.
ConcInit ==
    \E keep \in BOOLEAN :
        InitWith([ShippedConfig EXCEPT !.enableSSO = TRUE, !.keepAtomics = keep])

\* Registrations racing each other and the logins of the accounts they create.
RaceNext ==
    \/ \E e \in LinkEmails, p \in {"pw1"} \cup WeakPasswords : RegisterRead(e, p)
    \/ \E r \in BagToSet(inflight) : RegisterCreate(r)
    \/ \E r \in BagToSet(inflight) : RegisterWrite(r)
    \/ \E e \in Emails : LoginRead(e, "pw1")
    \/ \E r \in BagToSet(inflight) : LoginWrite(r)

RaceSpec == ConcInit /\ [][RaceNext]_vars

\* Logins of one account racing each other, between logouts that present the
\* two tokens of one sign-in.
Racers == 2

LoginRaceNext ==
    \/ \E e \in Emails : Register(e, "pw1")
    \/ \E e \in Emails : BagCardinality(inflight) < Racers /\ LoginRead(e, "pw1")
    \/ \E r \in BagToSet(inflight) : LoginWrite(r)
    \/ \E a \in issued, t \in issued :
          a.type = "access" /\ t.type = "refresh" /\ a.iat = t.iat /\ Logout(a, t)
    \/ Tick(MsPerSecond)

LoginRaceSpec == ConcInit /\ [][LoginRaceNext]_vars

\* Sign-ins of one account racing each other: provider callbacks and logins.
SignInProfile == [id |-> "sub1", email |-> "a@x", emailVerified |-> TRUE]

SignInRaceNext ==
    \/ \E e \in Emails : Register(e, "pw1")
    \/ CallbackRead("google", SignInProfile)
    \/ \E r \in BagToSet(inflight) : CallbackWrite(r)
    \/ \E e \in Emails : LoginRead(e, "pw1")
    \/ \E r \in BagToSet(inflight) : LoginWrite(r)

SignInRaceSpec == ConcInit /\ [][SignInRaceNext]_vars

\* A logout that presents the two tokens of one sign-in, racing a login or a
\* refresh of the same account.
LogoutRaceNext ==
    \/ \E e \in Emails : Register(e, "pw1")
    \/ \E e \in Emails : BagCardinality(inflight) < Racers /\ LoginRead(e, "pw1")
    \/ \E r \in BagToSet(inflight) : LoginWrite(r)
    \/ \E t \in issued :
          t.type = "refresh" /\ BagCardinality(inflight) < Racers /\ RefreshRead(t)
    \/ \E r \in BagToSet(inflight) : RefreshWrite(r)
    \/ \E a \in issued, t \in issued :
          /\ a.type = "access" /\ t.type = "refresh" /\ a.iat = t.iat
          /\ BagCardinality(inflight) < Racers
          /\ LogoutRead(a, t)
    \/ \E r \in BagToSet(inflight) : LogoutWrite(r)
    \/ Tick(MsPerSecond)

LogoutRaceSpec == ConcInit /\ [][LogoutRaceNext]_vars

\* Accounts: registration and logout with their failure paths, deactivated
\* accounts, and the protected route.
AccountNext ==
    \/ \E e \in Emails, p \in {"pw1"} \cup WeakPasswords : Register(e, p)
    \/ \E e \in Emails : RegisterSaveFails(e, "pw1")
    \/ \E e \in Emails, p \in Passwords : Login(e, p)
    \/ \E t \in Presentable : Refresh(t)
    \/ \E a \in Presentable, r \in PresentableRefresh : Logout(a, r)
    \/ \E a \in Presentable, r \in PresentableRefresh : LogoutSaveFails(a, r)
    \/ \E a \in Presentable : GetMe(a)
    \/ \E i \in Ids : Deactivate(i)
    \/ \E d \in {SubSecondStep, ACCESS_TOKEN_EXPIRY * MsPerSecond} : Tick(d)

AccountSpec == InitWith(ShippedConfig) /\ [][AccountNext]_vars

\* Token verification: the two secrets configured apart or alike, and tokens
\* presented to the wrong endpoint or tampered with.
JwtInit ==
    \E secret \in {"refresh-secret", "access-secret"} :
        InitWith([ShippedConfig EXCEPT !.refreshSecret = secret])

JwtNext ==
    \/ \E e \in Emails : Register(e, "pw1")
    \/ \E e \in Emails, p \in Passwords : Login(e, p)
    \/ \E t \in Presentable \cup Tampered : Refresh(t)
    \/ \E a \in Presentable \cup Tampered : GetMe(a)
    \/ \E d \in TickSteps : Tick(d)

JwtSpec == JwtInit /\ [][JwtNext]_vars

-----------------------------------------------------------------------------
(* Properties of the session routes, checked under Spec *)

IssuingOps == {"register", "login", "google", "github"}

\* The answer of a request that succeeded in issuing tokens
Issued(r) == r.op \in IssuingOps /\ r.status \in {200, 201, 302}

\* C1: Revocation by logout.  Once Logout has been called with a valid access
\* token and a refresh token R issued to that user, every later Refresh(R) is
\* answered 401 and issues no access token.
C1_RevokedTokenRefused ==
    (resp.op = "refresh" /\ resp.arg \in revoked)
        => (resp.status = 401 /\ resp.accessToken = NoToken)

\* C2: Refresh-token cap.  After any sequence of Register, Login,
\* OAuthCallback, Refresh and Logout, every user's stored refreshTokens list
\* has length at most 5.
C2_RefreshTokenCap ==
    \A i \in Ids : Len(users[i].refreshTokens) <= MaxRefreshTokens

\* A token was issued to a user whose list was already full, and the list is
\* still at the cap.
C2_Witness ==
    /\ Issued(resp)
    /\ resp.lenBefore = MaxRefreshTokens
    /\ Len(users[resp.user].refreshTokens) = MaxRefreshTokens

\* The refresh token the routes would hand user i at this instant
tokenNow(i) == generateRefreshToken(i, cfg.refreshSecret, now)

\* C3: Cap eviction order.  addRefreshToken on a user that holds 5 refresh
\* tokens leaves exactly 5 entries, the new token last, the first entry gone
\* and the other 4 kept in their order.
C3_CapEvictionOrder ==
    \A i \in Ids :
        Len(users[i].refreshTokens) = MaxRefreshTokens =>
            LET before == users[i].refreshTokens
                after == addRefreshToken(users[i], tokenNow(i), REFRESH_TOKEN_EXPIRY,
                                         now).refreshTokens
            IN  /\ Len(after) = MaxRefreshTokens
                /\ after[MaxRefreshTokens].token = tokenNow(i)
                /\ \A k \in 1..(MaxRefreshTokens - 1) : after[k] = before[k + 1]

\* A route added a token to a full list whose oldest token differed from the
\* others: the list now ends with the token just issued and the user holds a
\* full list again.
C3_Witness ==
    /\ Issued(resp)
    /\ resp.lenBefore = MaxRefreshTokens
    /\ Len(users[resp.user].refreshTokens) = MaxRefreshTokens
    /\ users[resp.user].refreshTokens[MaxRefreshTokens].token = resp.refreshToken
    /\ users[resp.user].refreshTokens[1].token # resp.refreshToken

\* The last request was a Refresh carrying a correctly signed, unexpired
\* refresh token that its owner's list does not hold.
RefreshOfNonMember ==
    /\ resp.op = "refresh"
    /\ verifyRefreshToken(resp.arg, cfg.refreshSecret, now)
    /\ resp.arg.userId \in Ids
    /\ resp.arg \notin tokensOf(users[resp.arg.userId])

\* C4: Refresh requires membership.  Refresh with a correctly signed,
\* unexpired refresh token that is not in the owning user's refreshTokens list
\* is answered 401 and issues no access token; for an active owner the answer
\* is 'Invalid refresh token'.
C4_RefreshRequiresMembership ==
    RefreshOfNonMember =>
        /\ resp.status = 401
        /\ resp.accessToken = NoToken
        /\ users[resp.arg.userId].isActive => resp.msg = "Invalid refresh token"

\* Refresh was refused for a token that was issued to an active user, was never
\* logged out with, and was pushed out of that user's list by later logins.
C4_Witness ==
    /\ RefreshOfNonMember
    /\ resp.arg \in issued
    /\ resp.arg \notin revoked
    /\ users[resp.arg.userId].isActive
    /\ resp.status = 401

-----------------------------------------------------------------------------
(* Properties of the token helpers, checked under JwtSpec *)

Roles == {"user", "admin"}

-----------------------------------------------------------------------------
(* Properties of password changes, checked under PasswordSpec *)

\* The last request was GET /me carrying a correctly signed, unexpired access
\* token of an existing, active user.
MeWithGoodToken ==
    /\ resp.op = "me"
    /\ resp.arg \in issued
    /\ verifyAccessToken(resp.arg, cfg.accessSecret, now)
    /\ resp.arg.userId \in Ids
    /\ users[resp.arg.userId].isActive

\* C6: Stale-token rejection.  For a user whose passwordChangedAt is set,
\* authenticate rejects every access token whose issued-at time precedes
\* passwordChangedAt, even though the token is correctly signed and unexpired
\* and the user is active.
C6_StaleTokenRejected ==
    (/\ MeWithGoodToken
     /\ users[resp.arg.userId].passwordChangedAt # NoDate
     /\ resp.arg.iat * MsPerSecond < users[resp.arg.userId].passwordChangedAt)
        => resp.status = 401

\* C7: A password change invalidates old tokens.  After a user's password is
\* changed (the password field is modified and the user is saved), every
\* access token issued to that user before the change (here: in a second that
\* ended by the time of the change) is rejected by authenticate.
C7_PasswordChangeInvalidates ==
    (/\ MeWithGoodToken
     /\ pwChanged[resp.arg.userId] # NoDate
     /\ (resp.arg.iat + 1) * MsPerSecond <= pwChanged[resp.arg.userId])
        => resp.status # 200

-----------------------------------------------------------------------------
(* Properties of the account lockout, checked under LockoutSpec *)

\* A login answered as locked: refused, and neither as a wrong password nor as
\* an inactive account.
AnsweredAccountLocked ==
    /\ resp.op = "login"
    /\ resp.status # 200
    /\ resp.msg \notin {"Invalid email or password",
                        "Account is inactive. Please contact support."}

\* C8: Lockout holds against the correct password.  After 5 consecutive failed
\* logins on a fresh account, a further Login within the lock window is
\* rejected as locked even when the correct password is supplied, no tokens
\* are issued, and the stored user is in the locked state.
C8_LockoutHolds ==
    (/\ resp.op = "login"
     /\ streak.user = resp.user
     /\ streak.last = "ok"
     /\ streak.n >= LockThreshold
     /\ streak.lastAt < streak.at + LockDuration)
        => /\ AnsweredAccountLocked
           /\ resp.accessToken = NoToken /\ resp.refreshToken = NoToken
           /\ isLocked(users[resp.user])

\* C9: Lockout boundary.  Starting from a fresh account, the 5th consecutive
\* failed Login is itself answered as locked, and the first four are answered
\* 'Invalid email or password'.
C9_LockoutBoundary ==
    (/\ resp.op = "login"
     /\ streak.user = resp.user
     /\ streak.last = "fail")
        => /\ streak.n < LockThreshold =>
                (resp.status = 401 /\ resp.msg = "Invalid email or password")
           /\ streak.n = LockThreshold => AnsweredAccountLocked

\* C10: Lazy lock expiry.  When a login attempt is processed for a user whose
\* lock has run out, the counter restarts: a failed attempt leaves
\* loginAttempts = 1 and the user not locked, and a correct-password attempt
\* succeeds.
C10_LazyLockExpiry ==
    (/\ resp.op = "login"
     /\ streak.user = resp.user
     /\ streak.n >= LockThreshold
     /\ streak.at # NoDate
     /\ streak.lastAt >= streak.at + LockDuration)
        => /\ (streak.last = "fail" /\ streak.n = LockThreshold + 1) =>
                (loginAttempts(users[resp.user]) = 1 /\ ~isLocked(users[resp.user]))
           /\ streak.last = "ok" => resp.status = 200

\* C11: Successful login resets the failure counter.  After any successful
\* Login the user's loginAttempts is 0 and the user is not locked, so fewer
\* than 5 failures before a success never contribute to a later lock.
C11_SuccessResetsCounter ==
    (resp.op = "login" /\ resp.status = 200 /\ streak.user = resp.user /\ streak.last = "ok")
        => /\ loginAttempts(users[resp.user]) = 0
           /\ ~isLocked(users[resp.user])

-----------------------------------------------------------------------------
(* Properties of failed logins, checked under PasswordSpec *)

\* The credentials (e, p) match no stored user: the email is unknown, or the
\* stored hash is not the hash of p.
BadCredentials(e, p) ==
    \/ findByEmail(e) = NoUser
    \/ users[findByEmail(e)].password
           # <<"bcrypt", p, saltOf(users[findByEmail(e)].password)>>

\* C12: Uniform invalid-credentials failure.  A Login with an unknown email
\* and a Login with a known email but wrong password produce the identical
\* failure response (401 'Invalid email or password'), issue no tokens and
\* leave every stored user unchanged.
C12_UniformInvalidCredentials ==
    [][\A e \in Emails, p \in Passwords :
          (Login(e, p) /\ BadCredentials(e, p)) =>
              /\ resp'.status = 401
              /\ resp'.msg = "Invalid email or password"
              /\ resp'.accessToken = NoToken
              /\ resp'.refreshToken = NoToken
              /\ users' = users
              /\ issued' = issued]_vars

\* A login with a wrong password on an existing account that holds refresh
\* tokens was refused.
C12_Witness ==
    /\ resp.op = "login"
    /\ resp.status = 401
    /\ resp.user \in Ids
    /\ users[resp.user].isActive
    /\ Len(users[resp.user].refreshTokens) > 0

-----------------------------------------------------------------------------
(* Properties of accounts, checked under AccountSpec *)

\* The step was answered 401, handed out no token and left the store alone.
RefusedWithoutEffect ==
    /\ resp'.status = 401
    /\ resp'.accessToken = NoToken
    /\ resp'.refreshToken = NoToken
    /\ users' = users
    /\ issued' = issued

\* Token t is correctly signed under secret, unexpired, and belongs to a
\* stored user who is deactivated.
OfInactiveUser(t, secret) ==
    /\ jwtVerify(t, secret, now)
    /\ t.userId \in Ids
    /\ ~users[t.userId].isActive

\* C13: Inactive accounts are refused everywhere.  For a user with
\* isActive = false, Login with the correct password, Refresh with a stored
\* unexpired refresh token and authenticate with a valid access token all
\* fail (401), issue no token and leave the user's refreshTokens and lastLogin
\* unchanged.
C13_InactiveRefused ==
    [][/\ \A e \in Emails, p \in Passwords :
            (/\ Login(e, p)
             /\ findByEmail(e) # NoUser
             /\ ~users[findByEmail(e)].isActive
             /\ users[findByEmail(e)].password
                    = <<"bcrypt", p, saltOf(users[findByEmail(e)].password)>>)
                => RefusedWithoutEffect
       /\ \A t \in Presentable :
            (/\ Refresh(t)
             /\ t.type = "refresh"
             /\ OfInactiveUser(t, cfg.refreshSecret)
             /\ t \in tokensOf(users[t.userId])) => RefusedWithoutEffect
       /\ \A a \in Presentable :
            (/\ GetMe(a)
             /\ a.type = "access"
             /\ OfInactiveUser(a, cfg.accessSecret)) => RefusedWithoutEffect]_vars

\* A deactivated user's valid access token was presented to GET /me and
\* refused, while the user still holds a stored, unexpired refresh token.
C13_Witness ==
    /\ resp.op = "me"
    /\ resp.arg.type = "access"
    /\ OfInactiveUser(resp.arg, cfg.accessSecret)
    /\ resp.status = 401
    /\ \E t \in tokensOf(users[resp.arg.userId]) : jwtVerify(t, cfg.refreshSecret, now)

-----------------------------------------------------------------------------
(* Properties of authenticate's refusals, checked under JwtSpec *)

\* C14: authenticate rejects with an authentication error.  A request to a
\* protected route with no bearer token, or with a token that is wrongly
\* signed, expired or of the wrong type, is answered 401 (code
\* AUTHENTICATION_ERROR) and the protected handler is not run.
C14_AuthenticationError ==
    [][\A a \in Presentable \cup Tampered :
          (GetMe(a) /\ (a = NoToken \/ ~verifyAccessToken(a, cfg.accessSecret, now)))
              => resp'.status = 401]_vars

-----------------------------------------------------------------------------
(* Properties of registration, checked under AccountSpec *)

\* C15: Duplicate registration.  Register with an email that already belongs
\* to a user fails with a conflict error (409), creates no user, issues no
\* tokens and leaves the existing user unchanged.
C15_DuplicateRegistration ==
    [][\A e \in Emails :
          (Register(e, "pw1") /\ findByEmail(e) # NoUser) =>
              /\ resp'.status = 409
              /\ resp'.accessToken = NoToken
              /\ resp'.refreshToken = NoToken
              /\ users' = users
              /\ issued' = issued]_vars

\* C16: Registration is all-or-nothing.  Whenever Register returns a failure
\* (a weak password, a duplicate email, or a failure in saving the refresh
\* token after the user was created), the store contains no user record
\* created by that invocation.
C16_RegisterAllOrNothing ==
    [][\A e \in Emails, p \in {"pw1"} \cup WeakPasswords :
          ((Register(e, p) \/ RegisterSaveFails(e, p)) /\ resp'.status # 201)
              => users' = users]_vars

-----------------------------------------------------------------------------
(* Properties of issued refresh tokens, checked under Spec *)

\* C17: Issued refresh tokens are usable.  Every refresh token returned by a
\* successful Register, Login or OAuthCallback is the newest entry of that
\* user's refreshTokens when the operation returns, and a Refresh with it
\* that follows at once succeeds and returns a new access token that lives
\* 900 seconds.
C17_IssuedTokenUsable ==
    [][/\ (ticks' = ticks /\ Issued(resp')) =>
            LET list == users'[resp'.user].refreshTokens
            IN  Len(list) > 0 /\ list[Len(list)].token = resp'.refreshToken
       /\ \A t \in Presentable :
            (/\ Issued(resp)
             /\ t = resp.refreshToken
             /\ t.iat = nowSec(now)
             /\ Refresh(t))
                => /\ resp'.status = 200
                   /\ resp'.accessToken.type = "access"
                   /\ resp'.accessToken.exp - resp'.accessToken.iat = ACCESS_TOKEN_EXPIRY]_vars

\* The entries of a refresh-token list, as a set
entriesOf(list) == {list[k] : k \in 1..Len(list)}

\* C18: Refresh does not rotate.  A successful Refresh(R) returns only a new
\* access token, adds no entry to refreshTokens and keeps R in the list, so a
\* further Refresh(R) succeeds again as long as R has not expired.
C18_RefreshDoesNotRotate ==
    [][\A t \in Presentable :
          /\ (Refresh(t) /\ resp'.status = 200) =>
                /\ resp'.refreshToken = NoToken
                /\ resp'.accessToken.type = "access"
                /\ Len(users'[t.userId].refreshTokens) <= Len(users[t.userId].refreshTokens)
                /\ entriesOf(users'[t.userId].refreshTokens)
                      \subseteq entriesOf(users[t.userId].refreshTokens)
                /\ t \in tokensOf(users'[t.userId])
                /\ \A i \in Ids : i # t.userId => users'[i] = users[i]
          /\ (/\ resp.op = "refresh" /\ resp.status = 200 /\ resp.arg = t
              /\ jwtVerify(t, cfg.refreshSecret, now)
              /\ Refresh(t)) => resp'.status = 200]_vars

\* A Refresh succeeded and pruned an expired entry from the list, and the
\* token it was called with is still stored.
C18_Witness ==
    /\ resp.op = "refresh"
    /\ resp.status = 200
    /\ resp.arg \in tokensOf(users[resp.user])
    /\ Len(users[resp.user].refreshTokens) < resp.lenBefore

-----------------------------------------------------------------------------
(* Properties of logout, checked under AccountSpec *)

\* C19: Logout is best-effort successful.  A Logout carrying a valid access
\* token always returns success, whether no refresh token is supplied, the
\* supplied token is not in the caller's list, or saving the removal fails;
\* and whenever the supplied token is in the caller's list and the save
\* succeeds, it is removed.
C19_LogoutBestEffort ==
    [][\A a \in Presentable, r \in PresentableRefresh :
          /\ ((Logout(a, r) \/ LogoutSaveFails(a, r)) /\ authenticate(a).ok) =>
                (resp'.status = 200 /\ resp'.msg = "Logged out successfully")
          /\ (/\ Logout(a, r)
              /\ authenticate(a).ok
              /\ r \in tokensOf(users[authenticate(a).user])) =>
                r \notin tokensOf(users'[authenticate(a).user])]_vars

\* A Logout answered success and took the supplied refresh token out of the
\* caller's list.
C19_Witness ==
    /\ resp.op = "logout"
    /\ resp.status = 200
    /\ resp.arg # NoToken
    /\ resp.arg \notin tokensOf(users[resp.user])
    /\ Len(users[resp.user].refreshTokens) < resp.lenBefore

\* C20: After a successful Logout, GET /me with the same, still unexpired
\* access token that was used for the Logout is rejected with status 401.
C20_AccessTokenDeadAfterLogout ==
    [][\A a \in Presentable :
          (/\ resp.op = "logout"
           /\ resp.status = 200
           /\ a = resp.bearer
           /\ jwtVerify(a, cfg.accessSecret, now)
           /\ GetMe(a)) => resp'.status = 401]_vars

-----------------------------------------------------------------------------
(* Properties of the account linker, checked under LinkSpec *)

\* The linked-identity entries of a user for one provider
providerEntries(user, provider) ==
    {k \in 1..Len(user.oauthProviders) : user.oauthProviders[k].provider = provider}

\* An assertion the strategies resolve by email: its (provider, subject id) is
\* held by no user and its email is the email of a stored user.
LinkedByEmail(provider, profile) ==
    /\ profile.email # NoEmail
    /\ findByProviderId(provider, profile.id) = NoUser
    /\ findByEmail(profile.email) # NoUser

identitiesOf(user) ==
    {<<"google", user.googleId>> : x \in {y \in {1} : user.googleId # ""}}
        \cup {<<"github", user.githubId>> : x \in {y \in {1} : user.githubId # ""}}
        \cup {<<user.oauthProviders[k].provider, user.oauthProviders[k].providerId>> :
                 k \in 1..Len(user.oauthProviders)}

\* C22: External identities are globally unique.  After any sequence of OAuth
\* callbacks no two distinct users hold the same (provider, subject id),
\* neither in their provider-id fields nor in their linked-identity entries.
C22_IdentitiesUnique ==
    \A i \in Ids, j \in Ids :
        i # j => identitiesOf(users[i]) \cap identitiesOf(users[j]) = {}

\* An assertion whose (provider, subject id) is held by one user and whose
\* email is the email of another
SplitAssertion(provider, profile) ==
    /\ profile.email # NoEmail
    /\ findByProviderId(provider, profile.id) # NoUser
    /\ findByEmail(profile.email) # NoUser
    /\ findByEmail(profile.email) # findByProviderId(provider, profile.id)

\* C23: Resolution order.  When an assertion's (provider, subject id) matches
\* user A and its email matches a different user B, the callback signs in A,
\* the linker changes nothing but A's lastLogin (the callback then appends A's
\* new refresh token), and B is left exactly as it was.
C23_ResolutionOrder ==
    [][\A pf \in LinkProfiles :
        (SplitAssertion("google", pf) /\ OAuthCallback("google", pf)) =>
            LET a == findByProviderId("google", pf.id)
                b == findByEmail(pf.email)
                done == StrategyVerify("google", pf)
            IN  /\ done.user = a
                /\ done.store = [users EXCEPT ![a].lastLogin = now]
                /\ resp'.user = a
                /\ resp'.accessToken.userId = a
                /\ Len(users') = Len(users)
                /\ users'[b] = users[b]
                /\ \A i \in Ids \ {a} : users'[i] = users[i]
                /\ users'[a] = [users[a] EXCEPT !.lastLogin = now,
                                                !.refreshTokens = users'[a].refreshTokens]]_vars

\* A Google sign-in was answered for a user other than the one whose email the
\* assertion carried.
C23_Witness ==
    /\ resp.op = "google"
    /\ resp.status = 302
    /\ resp.email # NoEmail
    /\ findByEmail(resp.email) # NoUser
    /\ findByEmail(resp.email) # resp.user
    /\ ~hasProvider(users[findByEmail(resp.email)], "google")

\* C24: Credential invariant.  In every reachable state every stored user has
\* a password hash or at least one linked external identity.
C24_CredentialInvariant ==
    \A i \in Ids :
        users[i].password # NoPassword \/ Len(users[i].oauthProviders) >= 1

\* The user has no password and no linked identity of another provider
LastCredential(user, provider) ==
    /\ user.password = NoPassword
    /\ hasProvider(user, provider)
    /\ \A k \in 1..Len(user.oauthProviders) : user.oauthProviders[k].provider = provider

\* C25: Unlinking the last credential is refused.  unlinkOAuthProvider(provider)
\* on a user with no password whose only linked identity is that provider
\* leaves the linked identities and the provider-id field unchanged; otherwise
\* it removes exactly that provider's entries and clears exactly that
\* provider's id field.
C25_LastCredentialKept ==
    \A i \in Ids, pr \in Providers :
        LET before == users[i]
            after == unlinkOAuthProvider(before, pr)
        IN  IF LastCredential(before, pr)
            THEN /\ after.oauthProviders = before.oauthProviders
                 /\ after.googleId = before.googleId
                 /\ after.githubId = before.githubId
            ELSE /\ after.oauthProviders =
                        SelectSeq(before.oauthProviders, LAMBDA e : e.provider # pr)
                 /\ after.googleId = (IF pr = "google" THEN "" ELSE before.googleId)
                 /\ after.githubId = (IF pr = "github" THEN "" ELSE before.githubId)

-----------------------------------------------------------------------------
(* Properties of the sign-in callbacks, checked under Spec *)

\* C26: Incomplete assertion.  For every provider, a callback whose assertion
\* carries no email is answered with an error; it creates no user, links no
\* identity, updates no lastLogin and issues no tokens.
C26_IncompleteAssertion ==
    [][\A pr \in Providers, pf \in Profiles :
        (cfg.enableSSO /\ pf.email = NoEmail /\ OAuthCallback(pr, pf)) =>
            /\ StrategyVerify(pr, pf).user = NoUser
            /\ StrategyVerify(pr, pf).store = users
            /\ resp'.status = 500
            /\ resp'.msg # ""
            /\ resp'.user = NoUser
            /\ resp'.accessToken = NoToken
            /\ resp'.refreshToken = NoToken
            /\ users' = users
            /\ issued' = issued]_vars

\* A GitHub callback without an email was answered with the strategy's error
\* while a user holding the asserted subject id is stored.
C26_Witness ==
    /\ resp.op = "github"
    /\ resp.status = 500
    /\ resp.msg = "Email not provided by GitHub"
    /\ \E i \in Ids : users[i].githubId \in SubjectIds

-----------------------------------------------------------------------------
(* Properties of the type claim, checked under JwtSpec *)

\* The token with its type claim set to type and signed again with the same key
Retyped(token, type) == [token EXCEPT !.type = type]

-----------------------------------------------------------------------------
(* Properties of refused refreshes, checked under AccountSpec *)

\* A refresh token Refresh refuses because of the token itself: it is expired,
\* wrongly signed or of the wrong type, or it is well formed but no longer in
\* the list of its active owner.
RefusedForToken(token) ==
    /\ token # NoToken
    /\ \/ ~verifyRefreshToken(token, cfg.refreshSecret, now)
       \/ /\ findById(token.userId) # NoUser
          /\ users[findById(token.userId)].isActive
          /\ ~hasToken(users[findById(token.userId)], token)

\* C28: Uniform InvalidToken on refresh.  Two refreshes in a row that are both
\* refused because of the token (expired, invalid signature, wrong type,
\* revoked or evicted) are answered with the same status and the same message.
C28_UniformInvalidToken ==
    [][\A t \in Presentable :
        (/\ resp.op = "refresh"
         /\ RefusedForToken(resp.arg)
         /\ RefusedForToken(t)
         /\ Refresh(t)) =>
            /\ resp'.status = resp.status
            /\ resp'.msg = resp.msg]_vars

-----------------------------------------------------------------------------
(* Properties of the user object in responses, checked under ProfileSpec *)

BodyOps == {"register", "login", "me", "profile"}

\* C29: No credential material in responses.  The user object answered by
\* Register, Login, GET /me and PATCH /profile has no password and no
\* refreshTokens path, and each of its linked identities is cut down to the
\* provider (and connection time): no provider subject id, no provider tokens.
C29_NoCredentialMaterial ==
    (resp.op \in BodyOps /\ resp.status \in {200, 201}) =>
        /\ resp.body # NoBody
        /\ "password" \notin DOMAIN resp.body
        /\ "refreshTokens" \notin DOMAIN resp.body
        /\ resp.body.email = users[resp.user].email
        /\ Len(resp.body.oauthProviders) = Len(users[resp.user].oauthProviders)
        /\ \A i \in 1..Len(resp.body.oauthProviders) :
              /\ DOMAIN resp.body.oauthProviders[i] \subseteq {"provider", "connectedAt"}
              /\ resp.body.oauthProviders[i].provider = users[resp.user].oauthProviders[i].provider

\* PATCH /profile answered the user object of an account that has a password
\* hash, a stored refresh token and a linked identity.
C29_Witness ==
    /\ resp.op = "profile"
    /\ resp.status = 200
    /\ resp.body.name = "renamed"
    /\ users[resp.user].password # NoPassword
    /\ Len(users[resp.user].refreshTokens) >= 1
    /\ Len(users[resp.user].oauthProviders) >= 1

-----------------------------------------------------------------------------
(* Properties of the password check, checked under CheckSpec *)

\* C30: Password check is exact and total.  For an active user registered with
\* password P, Login succeeds with candidate P and is answered 401 'Invalid
\* email or password' for every candidate different from P, case variants
\* included; for a user without a password comparePassword is false for every
\* candidate and Login is answered 401 'Invalid email or password'.
C30_PasswordCheckExact ==
    [][\A e \in Emails, c \in CheckPasswords :
        (Login(e, c) /\ findByEmail(e) # NoUser /\ users[findByEmail(e)].isActive) =>
            LET user == users[findByEmail(e)] IN
            /\ \A P \in CheckPasswords :
                  user.password = bcryptHash(<<"plain", P>>, saltOf(user.password)) =>
                      IF c = P
                      THEN resp'.status = 200
                      ELSE /\ resp'.status = 401
                           /\ resp'.msg = "Invalid email or password"
            /\ user.password = NoPassword =>
                  /\ ~comparePassword(user, c)
                  /\ resp'.status = 401
                  /\ resp'.msg = "Invalid email or password"]_vars

-----------------------------------------------------------------------------
(* Properties of the rate limiter, checked under RateSpec *)

\* C32: Auth endpoints are rate limited to 5 requests per window.  A
\* registration request of a client that has already sent 5 requests in the
\* current window is answered 429 and creates no user.
C32_RegisterRateLimited ==
    [][\A e \in RateEmails :
        (hits >= AuthLimiterMax /\ RegisterRequest(e, "pw1")) =>
            /\ resp'.status = 429
            /\ users' = users]_vars

-----------------------------------------------------------------------------
(* Properties of logout across accounts, checked under TwoUserSpec *)

\* Refresh would accept the token against the store: it verifies, its owner
\* exists and is active, and the owner's list holds it.
Usable(store, token) ==
    /\ verifyRefreshToken(token, cfg.refreshSecret, now)
    /\ token.userId \in 1..Len(store)
    /\ store[token.userId].isActive
    /\ hasToken(store[token.userId], token)

\* C33: Logout touches only the named token of the caller.  A Logout of user
\* A with refresh token R removes from A's refreshTokens the entries equal to R
\* and nothing else, every other usable refresh token stays usable, no other
\* user's document changes, and when R belongs to another user B it stays
\* usable for B.
C33_LogoutFrame ==
    [][\A a \in Presentable, r \in PresentableRefresh :
        (authenticate(a).ok /\ Logout(a, r)) =>
            LET A == authenticate(a).user IN
            /\ users'[A].refreshTokens =
                   SelectSeq(users[A].refreshTokens, LAMBDA rt : rt.token # r)
            /\ Len(users') = Len(users)
            /\ \A i \in Ids \ {A} : users'[i] = users[i]
            /\ \A t \in issued :
                   (t.type = "refresh" /\ (t # r \/ t.userId # A) /\ Usable(users, t))
                       => Usable(users', t)]_vars

\* A logout was answered for a caller who named a refresh token of another
\* user; that token is still in its owner's list and the caller keeps a
\* token of its own.
C33_Witness ==
    /\ resp.op = "logout"
    /\ resp.status = 200
    /\ resp.arg # NoToken
    /\ resp.arg.userId # resp.user
    /\ Usable(users, resp.arg)
    /\ Len(users[resp.user].refreshTokens) >= 1

-----------------------------------------------------------------------------
(* Agreement of the two places an external identity is stored, checked under
   LinkSpec *)

\* The provider-id field of a user for a provider ("" when it is not set)
providerIdField(user, provider) ==
    IF provider = "google" THEN user.googleId ELSE user.githubId

\* C34: Provider-id field and linked-identity entry agree.  In every reachable
\* state and for every provider, a user's provider-id field is set exactly when
\* the user has a linked-identity entry for that provider, and it equals that
\* entry's subject id.
C34_FieldAndEntryAgree ==
    \A i \in Ids, pr \in Providers :
        /\ (providerIdField(users[i], pr) # "") <=> hasProvider(users[i], pr)
        /\ \A k \in providerEntries(users[i], pr) :
              users[i].oauthProviders[k].providerId = providerIdField(users[i], pr)

-----------------------------------------------------------------------------
(* Properties of the pruning of expired refresh tokens, checked under Spec *)

\* The entries of a list that have not expired at time t, in their order
Unexpired(list, t) == SelectSeq(list, LAMBDA rt : rt.expiresAt > t)

-----------------------------------------------------------------------------
(* Properties of the stored password hash, checked under HashSpec *)

\* C36: The password hash changes only on a password change.  A step that
\* saves a user without having modified its password (Login, Refresh, Logout,
\* a provider callback, a profile update) leaves the stored hash as it was;
\* a save after user.password = P stores a bcrypt hash that verifies P and
\* differs from the old hash and from P.
C36_HashChangesOnlyOnChange ==
    [][/\ \A i \in Ids :
            users'[i].password # users[i].password =>
                (resp'.op = "password" /\ resp'.user = i)
       /\ \A i \in Ids, P \in Passwords :
            ChangePassword(i, P) =>
                /\ users'[i].password[1] = "bcrypt"
                /\ users'[i].password[2] = P
                /\ comparePassword(users'[i], P)
                /\ users'[i].password # users[i].password
                /\ users'[i].password # <<"plain", P>>
                /\ users'[i].password # P]_vars

\* The password of an account that signs in both ways was changed to the
\* password it already had, after which a login was answered.
C36_Witness ==
    /\ resp.op = "login"
    /\ resp.status = 200
    /\ saltOf(users[resp.user].password) > 1
    /\ users[resp.user].password[2] = "pw1"
    /\ Len(users[resp.user].oauthProviders) >= 1

-----------------------------------------------------------------------------
(* Properties of role checks, checked under RoleSpec *)

\* C40: Authorization follows the stored role.  A request to a route behind
\* authorize(roles) passes exactly when the authentication middleware attached
\* a user and that user's role as stored is in roles, whatever role claim the
\* access token carries; a request that reaches authorize without a user is
\* answered 401, and one whose user has a stored role outside roles is
\* answered 403.
C40_AuthorizationFollowsStoredRole ==
    [][\A a \in Presentable, roles \in RoleSets, optional \in BOOLEAN :
          RoleRoute(a, roles, optional) =>
              LET authenticated == authenticate(a).ok IN
              /\ resp'.status = 200 <=>
                     (authenticated /\ users[a.userId].role \in roles)
              /\ (authenticated /\ users[a.userId].role \notin roles) =>
                     resp'.status = 403
              /\ (optional /\ ~authenticated) => resp'.status = 401]_vars

\* A request passed authorize with the stored role admin while its token
\* still carries the role user.
C40_Witness ==
    /\ resp.op = "authorize"
    /\ resp.status = 200
    /\ resp.arg.role = "user"
    /\ users[resp.user].role = "admin"

-----------------------------------------------------------------------------
(* Properties of racing registrations, checked under RaceSpec *)

\* C37: Racing registration cannot duplicate an email.  When Register requests
\* for the same email have all passed the existing-user check before any of
\* them creates the user, no step leaves two users with one email, and a
\* request that reaches User.create after another has created the user is
\* answered with a failure, without tokens, and creates nothing.
C37_RacingRegistration ==
    [][/\ \A i, j \in 1..Len(users') : users'[i].email = users'[j].email => i = j
       /\ \A r \in BagToSet(inflight) :
            (RegisterCreate(r) /\ findByEmail(r.email) # NoUser) =>
                /\ users' = users
                /\ issued' = issued
                /\ resp'.status \notin {200, 201}
                /\ resp'.accessToken = NoToken
                /\ resp'.refreshToken = NoToken
       /\ \A r \in BagToSet(inflight) :
            (RegisterCreate(r) /\ findByEmail(r.email) = NoUser) =>
                /\ Len(users') = Len(users) + 1
                /\ users'[Len(users')].email = r.email]_vars

\* A registration that had passed the existing-user check was refused by
\* User.create because the email had been registered in the meantime.
C37_Witness ==
    /\ resp.op = "register"
    /\ resp.status = 500
    /\ resp.user = NoUser
    /\ findByEmail(resp.email) # NoUser

-----------------------------------------------------------------------------
(* Properties of racing logins, checked under LoginRaceSpec *)

\* C39: Concurrent logins both persist their tokens.  When Logins of a user
\* who held fewer than 4 refresh tokens interleave their load and save, a
\* Login that is answered with success leaves its refresh token in the stored
\* list and removes the token of no other Login: every token that Refresh
\* accepted before the save is still accepted after it, and so is the new one.
C39_ConcurrentLogins ==
    [][\A r \in BagToSet(inflight) :
          (/\ LoginWrite(r)
           /\ resp'.status = 200
           /\ Len(r.doc.refreshTokens) < MaxRefreshTokens - 1
           /\ Len(users[r.id].refreshTokens) < MaxRefreshTokens) =>
              /\ hasToken(users'[r.id], resp'.refreshToken)
              /\ Usable(users', resp'.refreshToken)
              /\ \A t \in tokensOf(users[r.id]) :
                    Usable(users, t) => Usable(users', t)]_vars

\* A Login was answered with success although another Login had stored its
\* token since this one loaded the document, and the list holds both tokens.
C39_Witness ==
    /\ resp.op = "login"
    /\ resp.status = 200
    /\ resp.loaded < MaxRefreshTokens - 1
    /\ resp.lenBefore > resp.loaded
    /\ hasToken(users[resp.user], resp.refreshToken)
    /\ \E t \in tokensOf(users[resp.user]) : t # resp.refreshToken

-----------------------------------------------------------------------------
(* Properties of racing sign-ins, checked under SignInRaceSpec *)

\* C31: The token cap under concurrent sign-ins.  Whatever the interleaving of
\* concurrent Login, Register follow-up and provider callback requests of one
\* user, the stored refreshTokens of a user never has more than 6 entries.
C31_CapUnderRace ==
    \A i \in Ids : Len(users[i].refreshTokens) <= MaxRefreshTokens + 1

-----------------------------------------------------------------------------
(* Properties of a logout racing other requests, checked under LogoutRaceSpec *)

\* C38: Logout is not undone by a racing request.  When Logout(R) of a user
\* runs while a Login or a Refresh of that user holds a copy of the document
\* loaded before the Logout saved, the token R is not in the stored
\* refreshTokens once the Logout has answered, Refresh(R) is refused from then
\* on, and the save of the other request does not put R back.
C38_LogoutSurvivesRace ==
    [][/\ \A r \in BagToSet(inflight) :
            (LogoutWrite(r) /\ resp'.status = 200) =>
                /\ ~hasToken(users'[r.id], r.arg)
                /\ ~Usable(users', r.arg)
       /\ \A r \in BagToSet(inflight), t \in revoked :
            (/\ LoginWrite(r) \/ RefreshWrite(r)
             /\ t.userId = r.id
             /\ ~hasToken(users[r.id], t)
             /\ t # resp'.refreshToken) =>
                ~hasToken(users'[r.id], t)]_vars

====
